---- MODULE Spec2Model ----
(***************************************************************************)
(* Request-execution engine of the Neurana SDK (HttpClient in http.ts):    *)
(* one logical operation = one call of HttpClient.request.  Every action   *)
(* is one turn of the event loop: the synchronous part of request, the     *)
(* continuation after an awaited fetch / sleep / body read settles, a      *)
(* timer callback, or the passage of time.                                 *)
(***************************************************************************)
EXTENDS Integers, Sequences, FiniteSets, TLC

(***************************************************************************)
(* Program constants (constants/index.ts)                                  *)
(***************************************************************************)
RETRY ==
  [ MAX_ATTEMPTS     |-> 3,
    INITIAL_DELAY    |-> 1000,
    MAX_DELAY        |-> 30000,
    BACKOFF_FACTOR   |-> 2,
    RETRYABLE_STATUS |-> {408, 429, 500, 502, 503, 504} ]

HTTP_STATUS ==
  [ OK |-> 200, CREATED |-> 201, NO_CONTENT |-> 204, BAD_REQUEST |-> 400,
    UNAUTHORIZED |-> 401, FORBIDDEN |-> 403, NOT_FOUND |-> 404,
    CONFLICT |-> 409, UNPROCESSABLE |-> 422, RATE_LIMITED |-> 429,
    SERVER_ERROR |-> 500, SERVICE_UNAVAILABLE |-> 503 ]

TIMEOUTS == [ DEFAULT |-> 30000, UPLOAD |-> 120000 ]

\* ERROR_CODES as the error classes expose them (asserted in errors.test.ts)
ERROR_CODES ==
  [ AUTHENTICATION_FAILED |-> "AUTH_FAILED",
    AUTHORIZATION_FAILED  |-> "FORBIDDEN",
    NOT_FOUND             |-> "NOT_FOUND",
    VALIDATION_ERROR      |-> "VALIDATION_ERROR",
    RATE_LIMIT_EXCEEDED   |-> "RATE_LIMIT",
    NETWORK_ERROR         |-> "NETWORK_ERROR",
    TIMEOUT               |-> "TIMEOUT",
    INVALID_CONFIG        |-> "INVALID_CONFIG" ]

(***************************************************************************)
(* Bounds of the model                                                     *)
(***************************************************************************)
\* the clock runs in ticks of RETRY.INITIAL_DELAY ms, up to MaxTicks ticks
MaxTicks == 8

(***************************************************************************)
(* Values                                                                  *)
(***************************************************************************)
Min(a, b) == IF a <= b THEN a ELSE b

RECURSIVE Pow(_, _)
Pow(b, e) == IF e <= 0 THEN 1 ELSE b * Pow(b, e - 1)

\* String.prototype.includes on a message, the message being a sequence of
\* words and the needle one word
Includes(message, word) == \E i \in 1..Len(message) : message[i] = word

\* what a transport call or a body read can throw
\* (isError: the thrown value is an instance of Error)
AbortError ==
  [isError |-> TRUE, name |-> "AbortError",
   message |-> <<"This", "operation", "was", "aborted">>]

TransportErrors ==
  { [isError |-> TRUE,  name |-> "TypeError", message |-> <<"fetch", "failed">>],
    [isError |-> TRUE,  name |-> "TypeError", message |-> <<"terminated">>],
    [isError |-> TRUE,  name |-> "Error",     message |-> <<"network", "unreachable">>],
    [isError |-> TRUE,  name |-> "Error",     message |-> <<"socket", "hang", "up">>],
    [isError |-> FALSE, name |-> "",          message |-> <<>>] }

InvalidUrlError ==
  [isError |-> TRUE, name |-> "TypeError", message |-> <<"Invalid", "URL">>]

CircularJsonError ==
  [isError |-> TRUE, name |-> "TypeError",
   message |-> <<"Converting", "circular", "structure", "to", "JSON">>]

NoError == [isError |-> FALSE, name |-> "none", message |-> <<>>]

\* Response: status, whether content-type includes application/json, the
\* body and the Retry-After header (a sequence of characters; <<"absent">>
\* stands for a header that is not there)
Statuses == {200, 201, 204, 400, 401, 403, 404, 408, 409, 422, 429, 500, 502, 503, 504}

\* bodies: a JSON error object {error:{code,message,details}}, a JSON
\* object without an error member, text that is not JSON, nothing
Bodies == {"errorObject", "object", "malformed", "empty"}

AbsentHeader == <<"absent">>

RetryAfterHeaders ==
  { AbsentHeader, <<>>, <<"4", "5">>, <<"0">>, <<"-", "5">>, <<"a", "b", "c">>,
    <<"1", "2", "s">> }

\* the Retry-After header is read for status 429 only, so it varies there only
Responses ==
  { [status |-> s, isJson |-> j, body |-> b, retryAfterHeader |-> h] :
      s \in Statuses \ {429}, j \in BOOLEAN, b \in Bodies, h \in {AbsentHeader} }
  \cup
  { [status |-> 429, isJson |-> j, body |-> b, retryAfterHeader |-> h] :
      j \in BOOLEAN, b \in Bodies, h \in RetryAfterHeaders }

NoResponse == [status |-> 0, isJson |-> FALSE, body |-> "empty", retryAfterHeader |-> AbsentHeader]

\* Response.ok
Ok(response) == response.status >= 200 /\ response.status <= 299

\* JSON.parse succeeds on the body
JsonParses(body) == body \in {"errorObject", "object"}

\* the parsed ApiError, or null
NullData == [isNull |-> TRUE, hasError |-> FALSE, code |-> "", message |-> "", details |-> ""]

ParsedBody(body) ==
  IF body = "errorObject"
  THEN [isNull |-> FALSE, hasError |-> TRUE, code |-> "SERVER_CODE",
        message |-> "server message", details |-> "server details"]
  ELSE [isNull |-> FALSE, hasError |-> FALSE, code |-> "", message |-> "", details |-> ""]

(***************************************************************************)
(* Outcomes: a value, a NeuranaError (or subclass), or a raw exception     *)
(* statusCode 0 and details "" stand for undefined; retryAfter is <<>> or  *)
(* <<n>>                                                                   *)
(***************************************************************************)
NoOutcome ==
  [kind |-> "none", class |-> "", code |-> "", statusCode |-> 0,
   message |-> "", details |-> "", retryAfter |-> <<>>, value |-> ""]

Value(v) == [NoOutcome EXCEPT !.kind = "value", !.value = v]

RawError(err) ==
  [NoOutcome EXCEPT !.kind = "raw", !.class = err.name]

NeuranaError(message, code, statusCode, details) ==
  [NoOutcome EXCEPT !.kind = "error", !.class = "NeuranaError", !.code = code,
                    !.statusCode = statusCode, !.message = message,
                    !.details = details]

AuthenticationError(message) ==
  [NeuranaError(message, ERROR_CODES.AUTHENTICATION_FAILED, 401, "")
     EXCEPT !.class = "AuthenticationError"]

AuthorizationError(message) ==
  [NeuranaError(message, ERROR_CODES.AUTHORIZATION_FAILED, 403, "")
     EXCEPT !.class = "AuthorizationError"]

NotFoundError(message) ==
  [NeuranaError(message, ERROR_CODES.NOT_FOUND, 404, "")
     EXCEPT !.class = "NotFoundError"]

ValidationError(message, details) ==
  [NeuranaError(message, ERROR_CODES.VALIDATION_ERROR, 422, details)
     EXCEPT !.class = "ValidationError"]

RateLimitError(retryAfter, message) ==
  [NeuranaError(message, ERROR_CODES.RATE_LIMIT_EXCEEDED, 429, "retryAfter")
     EXCEPT !.class = "RateLimitError", !.retryAfter = <<retryAfter>>]

NetworkError(message) ==
  [NeuranaError(message, ERROR_CODES.NETWORK_ERROR, 0, "")
     EXCEPT !.class = "NetworkError"]

TimeoutError ==
  [NeuranaError("ERROR_MESSAGES[TIMEOUT]", ERROR_CODES.TIMEOUT, 408, "")
     EXCEPT !.class = "TimeoutError"]

NeuranaErrorClasses ==
  {"NeuranaError", "AuthenticationError", "AuthorizationError", "NotFoundError",
   "ValidationError", "RateLimitError", "NetworkError", "TimeoutError"}

(***************************************************************************)
(* Pure functions of HttpClient                                            *)
(***************************************************************************)
\* shouldRetry without the attempt bound
shouldRetry_noBound(status, attempt) ==
  status \in RETRY.RETRYABLE_STATUS

\* shouldRetry that takes only server-side failures for retryable
shouldRetry_5xx(status, attempt) ==
  attempt < RETRY.MAX_ATTEMPTS /\ status >= 500

shouldRetry(status, attempt) ==
  attempt < RETRY.MAX_ATTEMPTS /\ status \in RETRY.RETRYABLE_STATUS

\* isRetryableError that looks at the error name only
isRetryableError_nameOnly(error) ==
  IF error.isError THEN error.name = "TypeError" ELSE FALSE

isRetryableError(error) ==
  IF error.isError
  THEN error.name = "TypeError" \/ Includes(error.message, "network")
  ELSE FALSE

\* calculateDelay without backoff
calculateDelay_flat(attempt) ==
  Min(RETRY.INITIAL_DELAY, RETRY.MAX_DELAY)

\* calculateDelay without the cap
calculateDelay_uncapped(attempt) ==
  RETRY.INITIAL_DELAY * Pow(RETRY.BACKOFF_FACTOR, attempt - 1)

calculateDelay(attempt) ==
  LET delay == RETRY.INITIAL_DELAY * Pow(RETRY.BACKOFF_FACTOR, attempt - 1)
  IN  Min(delay, RETRY.MAX_DELAY)

\* parseInt(text, 10): optional sign, then the longest prefix of decimal
\* digits; NaN when there is no digit
Digits == <<"0", "1", "2", "3", "4", "5", "6", "7", "8", "9">>

IsDigit(c) == \E d \in 1..10 : Digits[d] = c

DigitValue(c) == (CHOOSE d \in 1..10 : Digits[d] = c) - 1

RECURSIVE DigitPrefix(_, _, _)
DigitPrefix(text, i, acc) ==
  IF i > Len(text) \/ ~IsDigit(text[i])
  THEN acc
  ELSE DigitPrefix(text, i + 1, acc * 10 + DigitValue(text[i]))

\* parseInt that reads no number at all
parseInt_nan(text) ==
  [isNaN |-> TRUE, n |-> 0]

parseInt(text) ==
  LET signed == Len(text) > 0 /\ text[1] \in {"-", "+"}
      first  == IF signed THEN 2 ELSE 1
      sign   == IF signed /\ text[1] = "-" THEN -1 ELSE 1
  IN  IF first > Len(text) \/ ~IsDigit(text[first])
      THEN [isNaN |-> TRUE, n |-> 0]
      ELSE [isNaN |-> FALSE, n |-> sign * DigitPrefix(text, first, 0)]

\* createHttpError without the BAD_REQUEST case
createHttpError_400generic(response, errorData) ==
  LET status  == response.status
      code    == IF errorData.hasError THEN errorData.code ELSE "UNKNOWN_ERROR"
      message == IF errorData.hasError THEN errorData.message
                 ELSE "An unexpected error occurred"
      details == IF errorData.hasError THEN errorData.details ELSE ""
  IN  CASE status = HTTP_STATUS.UNAUTHORIZED -> AuthenticationError(message)
        [] status = HTTP_STATUS.FORBIDDEN -> AuthorizationError(message)
        [] status = HTTP_STATUS.NOT_FOUND -> NotFoundError(message)
        [] status = HTTP_STATUS.UNPROCESSABLE -> ValidationError(message, details)
        [] status = HTTP_STATUS.RATE_LIMITED ->
             LET retryAfterHeader == response.retryAfterHeader
                 retryAfter ==
                   IF retryAfterHeader # AbsentHeader /\ retryAfterHeader # <<>>
                   THEN parseInt(retryAfterHeader)
                   ELSE [isNaN |-> FALSE, n |-> 60]
             IN  RateLimitError(IF retryAfter.isNaN THEN 60 ELSE retryAfter.n, message)
        [] OTHER -> NeuranaError(message, code, status, details)

createHttpError(response, errorData) ==
  LET status  == response.status
      code    == IF errorData.hasError THEN errorData.code ELSE "UNKNOWN_ERROR"
      message == IF errorData.hasError THEN errorData.message
                 ELSE "An unexpected error occurred"
      details == IF errorData.hasError THEN errorData.details ELSE ""
  IN  CASE status = HTTP_STATUS.UNAUTHORIZED -> AuthenticationError(message)
        [] status = HTTP_STATUS.FORBIDDEN -> AuthorizationError(message)
        [] status = HTTP_STATUS.NOT_FOUND -> NotFoundError(message)
        [] status \in {HTTP_STATUS.UNPROCESSABLE, HTTP_STATUS.BAD_REQUEST} ->
             ValidationError(message, details)
        [] status = HTTP_STATUS.RATE_LIMITED ->
             LET retryAfterHeader == response.retryAfterHeader
                 \* an absent header is null and an empty one "": both falsy
                 retryAfter ==
                   IF retryAfterHeader # AbsentHeader /\ retryAfterHeader # <<>>
                   THEN parseInt(retryAfterHeader)
                   ELSE [isNaN |-> FALSE, n |-> 60]
             IN  RateLimitError(IF retryAfter.isNaN THEN 60 ELSE retryAfter.n, message)
        [] OTHER -> NeuranaError(message, code, status, details)

\* what a catch block can receive: a NeuranaError or a raw thrown value
ThrownNeurana(o) == [isNeurana |-> TRUE, o |-> o, raw |-> NoError]

ThrownRaw(e) == [isNeurana |-> FALSE, o |-> NoOutcome, raw |-> e]

\* handleError that takes every TypeError for a network failure
handleError_byName(error) ==
  IF error.isNeurana
  THEN error.o
  ELSE IF error.raw.isError /\ error.raw.name = "AbortError"
       THEN TimeoutError
       ELSE IF error.raw.isError /\ error.raw.name = "TypeError"
            THEN NetworkError("Failed to connect to server")
            ELSE NeuranaError("An unexpected error occurred", "UNKNOWN_ERROR", 0, "")

handleError(error) ==
  IF error.isNeurana
  THEN error.o
  ELSE IF error.raw.isError /\ error.raw.name = "AbortError"
       THEN TimeoutError
       ELSE IF error.raw.isError
               /\ (Includes(error.raw.message, "fetch")
                   \/ Includes(error.raw.message, "network"))
            THEN NetworkError("Failed to connect to server")
            ELSE NeuranaError("An unexpected error occurred", "UNKNOWN_ERROR", 0, "")

\* handleResponse once the body read has settled: read is "ok" when the body
\* arrived, otherwise the value the read threw.  The result is what
\* handleResponse returns (a Value) or throws (ThrownNeurana / ThrownRaw).
Returned(v) == [returns |-> TRUE, value |-> v, thrown |-> ThrownRaw(NoError)]

Threw(t) == [returns |-> FALSE, value |-> NoOutcome, thrown |-> t]

\* handleResponse needs no body read: 204, or a non-2xx that is not JSON
NeedsBody(response) ==
  /\ response.status # HTTP_STATUS.NO_CONTENT
  /\ (Ok(response) \/ response.isJson)

\* handleResponse without the NO_CONTENT case
handleResponse_no204(response, readOk, readError) ==
  IF ~Ok(response)
  THEN LET errorData ==
             IF response.isJson /\ readOk /\ JsonParses(response.body)
             THEN ParsedBody(response.body)
             ELSE NullData
       IN  Threw(ThrownNeurana(createHttpError(response, errorData)))
  ELSE IF ~response.isJson
       THEN IF readOk THEN Returned(Value("text"))
            ELSE Threw(ThrownRaw(readError))
       ELSE IF readOk /\ JsonParses(response.body)
            THEN Returned(Value("json"))
            ELSE Threw(ThrownNeurana(
                   NeuranaError("Failed to parse response", "PARSE_ERROR",
                                response.status, "")))

\* handleResponse that swallows a parse failure of a successful response
handleResponse_swallowParse(response, readOk, readError) ==
  IF response.status = HTTP_STATUS.NO_CONTENT
  THEN Returned(Value("undefined"))
  ELSE IF ~Ok(response)
       THEN LET errorData ==
                  IF response.isJson /\ readOk /\ JsonParses(response.body)
                  THEN ParsedBody(response.body)
                  ELSE NullData
            IN  Threw(ThrownNeurana(createHttpError(response, errorData)))
       ELSE IF ~response.isJson
            THEN IF readOk THEN Returned(Value("text"))
                 ELSE Threw(ThrownRaw(readError))
            ELSE IF readOk /\ JsonParses(response.body)
                 THEN Returned(Value("json"))
                 ELSE Returned(Value("undefined"))

\* handleResponse without the catch around the read of an error body
handleResponse_errorParseThrows(response, readOk, readError) ==
  IF response.status = HTTP_STATUS.NO_CONTENT
  THEN Returned(Value("undefined"))
  ELSE IF ~Ok(response)
       THEN IF response.isJson /\ ~(readOk /\ JsonParses(response.body))
            THEN Threw(ThrownNeurana(
                   NeuranaError("Failed to parse response", "PARSE_ERROR",
                                response.status, "")))
            ELSE Threw(ThrownNeurana(createHttpError(response,
                   IF response.isJson THEN ParsedBody(response.body) ELSE NullData)))
       ELSE IF ~response.isJson
            THEN IF readOk THEN Returned(Value("text"))
                 ELSE Threw(ThrownRaw(readError))
            ELSE IF readOk /\ JsonParses(response.body)
                 THEN Returned(Value("json"))
                 ELSE Threw(ThrownNeurana(
                        NeuranaError("Failed to parse response", "PARSE_ERROR",
                                     response.status, "")))

handleResponse(response, readOk, readError) ==
  IF response.status = HTTP_STATUS.NO_CONTENT
  THEN Returned(Value("undefined"))
  ELSE IF ~Ok(response)
       THEN LET errorData ==
                  IF response.isJson /\ readOk /\ JsonParses(response.body)
                  THEN ParsedBody(response.body)
                  ELSE NullData
            IN  Threw(ThrownNeurana(createHttpError(response, errorData)))
       ELSE IF ~response.isJson
            THEN IF readOk THEN Returned(Value("text"))
                 ELSE Threw(ThrownRaw(readError))
            ELSE IF readOk /\ JsonParses(response.body)
                 THEN Returned(Value("json"))
                 ELSE Threw(ThrownNeurana(
                        NeuranaError("Failed to parse response", "PARSE_ERROR",
                                     response.status, "")))

(***************************************************************************)
(* State of one operation                                                  *)
(***************************************************************************)
VARIABLES
  cfg,               \* HttpClientConfig and RequestConfig of the call
  pc,                \* "idle", "fetching", "sleeping", "reading", "done"
  now,               \* the clock, ms
  callStart,         \* when request was called
  attempt,           \* the attempt parameter of the running executeWithRetry
  fetchCalls,        \* how many times fetch has been called
  attemptStart,      \* when the fetch of the current attempt was called
  history,           \* per settled attempt: "retryable_status", "other_status", "thrown"
  last,              \* how the latest settled attempt ended
  delays,            \* the arguments of the sleep calls so far
  sleepUntil,        \* when the pending sleep timer is due
  timerArmed,        \* the deadline timer (timeoutId) is pending
  timerDue,          \* when the deadline timer is due
  controllerAborted, \* controller.signal.aborted
  callerAborted,     \* config.signal.aborted, when the caller gave a signal
  handled,           \* the response given to handleResponse
  bodyRead,          \* how the body read of handleResponse settled: "none", "ok", "failed"
  callerData,        \* the caller's data object as it is now
  init,              \* the RequestInit that request built, with the url
  sent,              \* what each call of fetch was given, in call order
  outcome            \* what request returned or threw

(***************************************************************************)
(* State of one WorkflowsResource.create / update call (workflows.ts)      *)
(***************************************************************************)
VARIABLES
  call,              \* the call: create(data) or update(id, data)
  opc,               \* "idle", "uploading", "posting", "done"
  stepIndex,         \* the loop variable i of processSteps (0-based)
  processedSteps,    \* the processedSteps array of processSteps
  uploadCalls,       \* the calls of the upload collaborator, in call order
  inFlight,          \* positions of the steps whose upload has not settled
  uploaded,          \* the uploads that resolved: step position and key
  failedUploads,     \* the uploads that rejected: step position and error
  workflowRequests,  \* the bodies given to http.post / http.patch
  callResult         \* what create / update returned or threw

httpVars ==
  <<cfg, pc, now, callStart, attempt, fetchCalls, attemptStart, history, last,
    delays, sleepUntil, timerArmed, timerDue, controllerAborted, callerAborted,
    handled, bodyRead, callerData, init, sent, outcome>>

orchVars ==
  <<call, opc, stepIndex, processedSteps, uploadCalls, inFlight, uploaded,
    failedUploads, workflowRequests, callResult>>

(***************************************************************************)
(* State of two operations that run on one HttpClient                      *)
(***************************************************************************)
VARIABLES
  ops,               \* per operation: the locals of its request call
  pairNow,           \* the clock, ms
  actor              \* the operation whose event ran last, 0 for the clock

pairVars == <<ops, pairNow, actor>>

(***************************************************************************)
(* State of a run of calculateDelay over successive attempt numbers        *)
(***************************************************************************)
VARIABLES
  firstAttempt,      \* the attempt number the run starts with
  delayLog           \* calculateDelay(firstAttempt), calculateDelay(firstAttempt + 1), ...

delayVars == <<firstAttempt, delayLog>>

(***************************************************************************)
(* State of one construction of a NeuranaClient and of the calls made on   *)
(* its HttpClients                                                         *)
(***************************************************************************)
VARIABLES
  clientConfig,      \* the NeuranaConfig given to the constructor
  clientPc,          \* "new", then "constructed" or "threw"
  components,        \* the HttpClients and resources created so far
  warnings,          \* the urls logger.warn was called with
  constructError,    \* what the constructor threw
  issued             \* per call made on an HttpClient: its arguments and URL

clientVars ==
  <<clientConfig, clientPc, components, warnings, constructError, issued>>

vars == <<httpVars, orchVars, pairVars, delayVars, clientVars>>

\* no NeuranaClient is being constructed
ClientParked ==
  /\ clientConfig = <<>>
  /\ clientPc = "parked"
  /\ components = {}
  /\ warnings = <<>>
  /\ constructError = NoOutcome
  /\ issued = <<>>

\* no run of calculateDelay is under way
DelayParked ==
  /\ firstAttempt = 0
  /\ delayLog = <<>>

\* no pair of operations is under way
PairParked ==
  /\ ops = <<>>
  /\ pairNow = 0
  /\ actor = 0

\* the timeouts a call is made with: config.timeout ?? this.#timeout
TimeoutValues == {RETRY.INITIAL_DELAY, 3 * RETRY.INITIAL_DELAY, TIMEOUTS.DEFAULT}

\* base URLs: NeuranaClient.validateEndpointSecurity accepts every one of
\* them; "localhost" is not an absolute URL, so new URL(path, base) throws
BaseUrls == {"https://workflows.neurana.io", "localhost"}

IsAbsoluteUrl(url) == url \in {"https://workflows.neurana.io"}

\* config.data: absent, an object, an object JSON.stringify throws on
DataValues == {"undefined", "object", "circular"}

Configs ==
  [timeout : TimeoutValues, hasSignal : BOOLEAN, baseUrl : BaseUrls,
   data : DataValues]

NoAttempt == [type |-> "none", response |-> NoResponse, error |-> NoError]

\* values of randomUUID()
RequestIds == {"uuid-1", "uuid-2"}

\* buildHeaders(): fixed headers of the client and a fresh X-Request-ID
buildHeaders(requestId) ==
  [authorization |-> "Bearer apiKey", contentType |-> "application/json",
   requestId |-> requestId]

\* JSON.stringify(data): the text of the object as it is when called
Stringify(data) == "{" \o data \o "}"

\* no RequestInit built yet
NoInit ==
  [url |-> "", method |-> "", headers |-> buildHeaders(""), body |-> "undefined"]

\* no create / update call is under way
NoCall == [op |-> "none", id |-> <<>>, hasData |-> FALSE, name |-> <<>>,
           hasName |-> FALSE, hasSteps |-> FALSE, steps |-> <<>>]

OrchParked ==
  /\ call = NoCall
  /\ opc = "parked"
  /\ stepIndex = 0
  /\ processedSteps = <<>>
  /\ uploadCalls = <<>>
  /\ inFlight = {}
  /\ uploaded = <<>>
  /\ failedUploads = <<>>
  /\ workflowRequests = <<>>
  /\ callResult = NoOutcome

Init ==
  /\ OrchParked
  /\ PairParked
  /\ DelayParked
  /\ ClientParked
  /\ bodyRead = "none"
  /\ cfg \in Configs
  /\ callerData = cfg.data
  /\ init = NoInit
  /\ sent = <<>>
  /\ pc = "idle"
  /\ now = 0
  /\ callStart = 0
  /\ attempt = 0
  /\ fetchCalls = 0
  /\ attemptStart = 0
  /\ history = <<>>
  /\ last = NoAttempt
  /\ delays = <<>>
  /\ sleepUntil = 0
  /\ timerArmed = FALSE
  /\ timerDue = 0
  /\ controllerAborted = FALSE
  /\ callerAborted = FALSE
  /\ handled = NoResponse
  /\ outcome = NoOutcome

\* init.signal: config.signal ?? controller.signal
signalAborted == IF cfg.hasSignal THEN callerAborted ELSE controllerAborted

\* a timer callback that is due runs before the clock moves on
TimerDue == timerArmed /\ now >= timerDue

SleepDue == pc = "sleeping" /\ now >= sleepUntil

\* new URL(path, this.#baseUrl)
buildUrl(baseUrl) ==
  IF IsAbsoluteUrl(baseUrl) THEN [throws |-> FALSE, error |-> NoError]
  ELSE [throws |-> TRUE, error |-> InvalidUrlError]

\* request that clears the timer at the end of the try block instead of in
\* a finally block
Finish_leak(result) ==
  /\ pc' = "done"
  /\ outcome' = result
  /\ timerArmed' = IF result.kind = "value" THEN FALSE ELSE timerArmed

\* request's catch and finally: the outcome is delivered and the deadline
\* timer cleared
Finish(result) ==
  /\ pc' = "done"
  /\ outcome' = result
  /\ timerArmed' = FALSE

\* Catch that marks the error of a last attempt
Catch_attemptDependent(thrown) ==
  Finish([handleError(thrown) EXCEPT
            !.code = IF attempt = RETRY.MAX_ATTEMPTS THEN "RETRIES_EXHAUSTED" ELSE @])

\* request after executeWithRetry or handleResponse threw
Catch(thrown) == Finish(handleError(thrown))

\* fetch(url, init) is called by executeWithRetry(url, init, n)
CallFetch(n) ==
  /\ pc' = "fetching"
  /\ attempt' = n
  /\ fetchCalls' = fetchCalls + 1
  /\ attemptStart' = now
  /\ last' = NoAttempt
  /\ sent' = Append(sent, init')

\* StartSleep that waits as long as the Retry-After header of a 429 says
StartSleep_retryAfter ==
  LET header == last'.response.retryAfterHeader
      delay  == IF /\ last'.type = "response"
                   /\ last'.response.status = 429
                   /\ header # AbsentHeader
                   /\ ~parseInt(header).isNaN
                THEN parseInt(header).n * 1000
                ELSE calculateDelay(attempt)
  IN  /\ pc' = "sleeping"
      /\ delays' = Append(delays, delay)
      /\ sleepUntil' = now + delay

\* await this.sleep(calculateDelay(attempt))
StartSleep ==
  /\ pc' = "sleeping"
  /\ delays' = Append(delays, calculateDelay(attempt))
  /\ sleepUntil' = now + calculateDelay(attempt)

(***************************************************************************)
(* request up to its first await                                           *)
(***************************************************************************)
request ==
  /\ pc = "idle"
  /\ callStart' = now
  /\ IF buildUrl(cfg.baseUrl).throws
     THEN \* thrown before the try block is entered and before the timer is set
          /\ pc' = "done"
          /\ outcome' = RawError(buildUrl(cfg.baseUrl).error)
          /\ UNCHANGED <<timerArmed, timerDue, attempt, fetchCalls, attemptStart, last,
                         init, sent>>
     ELSE /\ timerDue' = now + cfg.timeout
          /\ IF cfg.data = "circular"
             THEN \* JSON.stringify throws inside the try block
                  /\ Catch(ThrownRaw(CircularJsonError))
                  /\ UNCHANGED <<attempt, fetchCalls, attemptStart, last, init, sent>>
             ELSE /\ timerArmed' = TRUE
                  /\ \E requestId \in RequestIds :
                       init' = [url       |-> cfg.baseUrl,
                                method    |-> IF cfg.data = "undefined" THEN "GET" ELSE "POST",
                                headers   |-> buildHeaders(requestId),
                                body      |-> IF cfg.data = "undefined" THEN "undefined"
                                              ELSE Stringify(callerData)]
                  /\ CallFetch(1)
                  /\ UNCHANGED outcome
  /\ UNCHANGED <<orchVars, pairVars, delayVars, clientVars>>
  /\ UNCHANGED <<bodyRead, callerData>>
  /\ UNCHANGED <<cfg, now, history, delays, sleepUntil, controllerAborted,
                 callerAborted, handled>>

(***************************************************************************)
(* executeWithRetry: the awaited fetch resolves with a response            *)
(***************************************************************************)
StatusTag(status) ==
  IF status \in RETRY.RETRYABLE_STATUS THEN "retryable_status" ELSE "other_status"

FetchResolve ==
  /\ pc = "fetching"
  /\ ~signalAborted
  /\ \E response \in Responses :
       /\ last' = [type |-> "response", response |-> response, error |-> NoError]
       /\ history' = Append(history, StatusTag(response.status))
       /\ IF shouldRetry(response.status, attempt)
          THEN /\ StartSleep
               /\ UNCHANGED <<handled, outcome, timerArmed>>
          ELSE \* return response; request calls handleResponse(response)
               /\ handled' = response
               /\ UNCHANGED <<delays, sleepUntil>>
               /\ IF NeedsBody(response)
                  THEN /\ pc' = "reading"
                       /\ UNCHANGED <<outcome, timerArmed>>
                  ELSE LET r == handleResponse(response, TRUE, NoError)
                       IN  IF r.returns THEN Finish(r.value) ELSE Catch(r.thrown)
  /\ UNCHANGED <<orchVars, pairVars, delayVars, clientVars>>
  /\ UNCHANGED <<bodyRead, callerData, init, sent>>
  /\ UNCHANGED <<cfg, now, callStart, attempt, fetchCalls, attemptStart, timerDue,
                 controllerAborted, callerAborted>>

\* the catch block of executeWithRetry
CatchFetch(error) ==
  /\ last' = [type |-> "thrown", response |-> NoResponse, error |-> error]
  /\ history' = Append(history, "thrown")
  /\ IF isRetryableError(error) /\ attempt < RETRY.MAX_ATTEMPTS
     THEN /\ StartSleep
          /\ UNCHANGED <<outcome, timerArmed>>
     ELSE /\ Catch(ThrownRaw(error))
          /\ UNCHANGED <<delays, sleepUntil>>
  /\ UNCHANGED <<orchVars, pairVars, delayVars, clientVars>>
  /\ UNCHANGED <<bodyRead, callerData, init, sent>>
  /\ UNCHANGED <<cfg, now, callStart, attempt, fetchCalls, attemptStart, timerDue,
                 controllerAborted, callerAborted, handled>>

\* the awaited fetch rejects with a transport failure
FetchReject ==
  /\ pc = "fetching"
  /\ ~signalAborted
  /\ \E error \in TransportErrors : CatchFetch(error)

\* the awaited fetch rejects because its signal is aborted (also when the
\* signal was aborted already at the time fetch was called)
FetchAbort ==
  /\ pc = "fetching"
  /\ signalAborted
  /\ CatchFetch(AbortError)

\* a retry that arms the deadline timer anew for its attempt
SleepDone_rearm ==
  /\ pc = "sleeping" /\ now >= sleepUntil
  /\ pc' = "fetching"
  /\ attempt' = attempt + 1
  /\ fetchCalls' = fetchCalls + 1
  /\ attemptStart' = now
  /\ last' = [type |-> "none", response |-> NoResponse, error |-> NoError]
  /\ timerArmed' = ~controllerAborted
  /\ timerDue' = now + cfg.timeout
  /\ sent' = Append(sent, init)
  /\ UNCHANGED <<orchVars, pairVars, delayVars, clientVars>>
  /\ UNCHANGED <<bodyRead, callerData, init>>
  /\ UNCHANGED <<cfg, now, callStart, history, delays, sleepUntil,
                 controllerAborted, callerAborted, handled, outcome>>

\* a retry that serializes the caller's data anew
SleepDone_reserialize ==
  /\ SleepDue
  /\ init' = [init EXCEPT !.body = IF cfg.data = "undefined" THEN "undefined"
                                   ELSE Stringify(callerData)]
  /\ CallFetch(attempt + 1)
  /\ UNCHANGED <<orchVars, pairVars, delayVars, clientVars>>
  /\ UNCHANGED <<bodyRead, callerData>>
  /\ UNCHANGED <<cfg, now, callStart, history, delays, sleepUntil, timerArmed,
                 timerDue, controllerAborted, callerAborted, handled, outcome>>

\* the sleep timer fires: executeWithRetry(url, init, attempt + 1)
SleepDone ==
  /\ SleepDue
  /\ UNCHANGED init
  /\ CallFetch(attempt + 1)
  /\ UNCHANGED <<orchVars, pairVars, delayVars, clientVars>>
  /\ UNCHANGED <<bodyRead, callerData>>
  /\ UNCHANGED <<cfg, now, callStart, history, delays, sleepUntil, timerArmed,
                 timerDue, controllerAborted, callerAborted, handled, outcome>>

(***************************************************************************)
(* handleResponse: the awaited body read settles                           *)
(***************************************************************************)
BodySettle(readOk, readError) ==
  /\ LET r == handleResponse(handled, readOk, readError)
     IN  IF r.returns THEN Finish(r.value) ELSE Catch(r.thrown)
  /\ UNCHANGED <<orchVars, pairVars, delayVars, clientVars>>
  /\ bodyRead' = IF readOk THEN "ok" ELSE "failed"
  /\ UNCHANGED <<callerData, init, sent>>
  /\ UNCHANGED <<cfg, now, callStart, attempt, fetchCalls, attemptStart, history,
                 last, delays, sleepUntil, timerDue, controllerAborted,
                 callerAborted, handled>>

BodyRead ==
  /\ pc = "reading"
  /\ ~signalAborted
  /\ BodySettle(TRUE, NoError)

BodyFail ==
  /\ pc = "reading"
  /\ ~signalAborted
  /\ \E error \in TransportErrors : BodySettle(FALSE, error)

BodyAbort ==
  /\ pc = "reading"
  /\ signalAborted
  /\ BodySettle(FALSE, AbortError)

(***************************************************************************)
(* Timers, the caller's signal, time                                       *)
(***************************************************************************)
\* the deadline timer fires: controller.abort()
TimerFire ==
  /\ TimerDue
  /\ timerArmed' = FALSE
  /\ controllerAborted' = TRUE
  /\ UNCHANGED <<orchVars, pairVars, delayVars, clientVars>>
  /\ UNCHANGED <<bodyRead, callerData, init, sent>>
  /\ UNCHANGED <<cfg, pc, now, callStart, attempt, fetchCalls, attemptStart,
                 history, last, delays, sleepUntil, timerDue, callerAborted,
                 handled, outcome>>

\* the caller aborts the signal it passed in config.signal
CallerAbort ==
  /\ cfg.hasSignal
  /\ pc \in {"fetching", "sleeping", "reading"}
  /\ ~callerAborted
  /\ callerAborted' = TRUE
  /\ UNCHANGED <<orchVars, pairVars, delayVars, clientVars>>
  /\ UNCHANGED <<bodyRead, callerData, init, sent>>
  /\ UNCHANGED <<cfg, pc, now, callStart, attempt, fetchCalls, attemptStart,
                 history, last, delays, sleepUntil, timerArmed, timerDue,
                 controllerAborted, handled, outcome>>

\* the caller changes the data object it passed, while an attempt or a
\* backoff sleep is under way
MutateData ==
  /\ pc \in {"fetching", "sleeping"}
  /\ callerData = "object"
  /\ callerData' = "mutated"
  /\ UNCHANGED <<orchVars, pairVars, delayVars, clientVars>>
  /\ UNCHANGED <<cfg, pc, now, callStart, attempt, fetchCalls, attemptStart,
                 history, last, delays, sleepUntil, timerArmed, timerDue,
                 controllerAborted, callerAborted, handled, bodyRead, init, sent,
                 outcome>>

\* time passes while the operation awaits; not while a timer callback is due
\* or an aborted fetch / body read is about to reject
Tick ==
  /\ pc \in {"fetching", "sleeping", "reading"}
  /\ now < MaxTicks * RETRY.INITIAL_DELAY
  /\ ~TimerDue
  /\ ~SleepDue
  /\ ~(pc \in {"fetching", "reading"} /\ signalAborted)
  /\ now' = now + RETRY.INITIAL_DELAY
  /\ UNCHANGED <<orchVars, pairVars, delayVars, clientVars>>
  /\ UNCHANGED <<bodyRead, callerData, init, sent>>
  /\ UNCHANGED <<cfg, pc, callStart, attempt, fetchCalls, attemptStart, history,
                 last, delays, sleepUntil, timerArmed, timerDue,
                 controllerAborted, callerAborted, handled, outcome>>

Next ==
  \/ request
  \/ FetchResolve
  \/ FetchReject
  \/ FetchAbort
  \/ SleepDone
  \/ BodyRead
  \/ BodyFail
  \/ BodyAbort
  \/ TimerFire
  \/ CallerAbort
  \/ MutateData
  \/ Tick

Spec == Init /\ [][Next]_vars

TypeOK ==
  /\ pc \in {"idle", "fetching", "sleeping", "reading", "done"}
  /\ attempt \in 0..RETRY.MAX_ATTEMPTS
  /\ Len(history) <= attempt

(***************************************************************************)
(* Step Orchestrator: WorkflowsResource.create / update and processSteps   *)
(* (resources/workflows.ts).  Text is a sequence of characters; an object  *)
(* is a function from its field names, a field that is not in the domain   *)
(* being undefined.                                                        *)
(***************************************************************************)
\* the longest steps array of a call
MaxSteps == 3

IsSpace(c) == c \in {" ", "\n"}

RECURSIVE TrimStart(_)
TrimStart(text) ==
  IF text # <<>> /\ IsSpace(Head(text)) THEN TrimStart(Tail(text)) ELSE text

RECURSIVE TrimEnd(_)
TrimEnd(text) ==
  IF text # <<>> /\ IsSpace(text[Len(text)])
  THEN TrimEnd(SubSeq(text, 1, Len(text) - 1))
  ELSE text

\* String.prototype.trim
Trim(text) == TrimEnd(TrimStart(text))

Has(object, field) == field \in DOMAIN object

\* the steps a caller can put in a request; "undefined" stands for an
\* optional member that is not given
StepInputs ==
  { [type |-> "http", name |-> "Fetch", config |-> [url |-> "https://api.example.com"],
     next |-> "step_2", condition |-> "undefined"],
    [type |-> "script", name |-> "undefined",
     config |-> [runtime |-> "python", code |-> <<"x">>, fileName |-> "keep.py"],
     next |-> "null", condition |-> "ok == true", id |-> "s1"],
    [type |-> "code", name |-> "Process Data",
     config |-> [runtime |-> "python", code |-> <<"x", "=", "1">>, libs |-> "requests"],
     next |-> "step_3", condition |-> "undefined"],
    [type |-> "code", name |-> "undefined",
     config |-> [runtime |-> "node", code |-> <<" ", "y", "\n">>, fileName |-> "main.js",
                 envKeys |-> "API_KEY", timeout |-> "30", fileId |-> "stale"],
     next |-> "undefined", condition |-> "x > 1"],
    [type |-> "code", name |-> "Node", config |-> [runtime |-> "node", code |-> <<"z", " ">>],
     next |-> "null", condition |-> "undefined"],
    [type |-> "code", name |-> "No Runtime", config |-> [code |-> <<"x">>],
     next |-> "undefined", condition |-> "undefined"],
    [type |-> "code", name |-> "Ruby", config |-> [runtime |-> "ruby", code |-> <<"x">>],
     next |-> "undefined", condition |-> "undefined"],
    [type |-> "code", name |-> "Blank", config |-> [runtime |-> "python", code |-> <<" ", "\n">>],
     next |-> "undefined", condition |-> "undefined"],
    [type |-> "code", name |-> "No Code", config |-> [runtime |-> "node", fileName |-> "a.js"],
     next |-> "undefined", condition |-> "undefined"] }

StepSeqs(n) == UNION { [1..m -> StepInputs] : m \in 0..n }

\* ids: a well-formed one, an empty one, one with a character outside
\* ID_PATTERN, one that is too long
ID_PATTERN_CHARS == {"w", "f", "_", "1", "-"}

MAX_ID_LENGTH == 64

GoodId == <<"w", "f", "_", "1">>

Ids == { GoodId, <<>>, <<"w", "f", " ", "1">>, [n \in 1..(MAX_ID_LENGTH + 1) |-> "w"] }

GoodName == <<"W", "F">>

\* the calls: create(data) and update(id, data).  Every steps array is
\* tried with valid surroundings, every invalid surrounding with one array.
OneStep == <<CHOOSE step \in StepInputs : step.type = "http">>

Calls ==
  { [op |-> "create", id |-> <<>>, hasData |-> TRUE, hasName |-> TRUE,
     name |-> GoodName, hasSteps |-> TRUE, steps |-> steps] :
      steps \in StepSeqs(MaxSteps) }
  \cup
  { [op |-> "create", id |-> <<>>, hasData |-> TRUE, hasName |-> hn,
     name |-> name, hasSteps |-> hs, steps |-> IF hs THEN OneStep ELSE <<>>] :
      hn \in BOOLEAN, name \in {<<>>, <<" ">>}, hs \in BOOLEAN }
  \cup
  { [op |-> "create", id |-> <<>>, hasData |-> FALSE, hasName |-> FALSE,
     name |-> <<>>, hasSteps |-> FALSE, steps |-> <<>>] }
  \cup
  { [op |-> "update", id |-> GoodId, hasData |-> TRUE, hasName |-> hn,
     name |-> IF hn THEN GoodName ELSE <<>>, hasSteps |-> TRUE, steps |-> steps] :
      hn \in BOOLEAN, steps \in StepSeqs(MaxSteps) }
  \cup
  { [op |-> "update", id |-> id, hasData |-> hd, hasName |-> hn,
     name |-> IF hn THEN GoodName ELSE <<>>, hasSteps |-> FALSE, steps |-> <<>>] :
      id \in Ids, hd \in BOOLEAN, hn \in {FALSE} }
  \cup
  { [op |-> "update", id |-> id, hasData |-> TRUE, hasName |-> TRUE,
     name |-> GoodName, hasSteps |-> FALSE, steps |-> <<>>] : id \in Ids }
  \cup
  { [op |-> op, id |-> id, hasData |-> hd, hasName |-> FALSE,
     name |-> <<>>, hasSteps |-> FALSE, steps |-> <<>>] :
      op \in {"get", "delete", "updateVisibility", "trigger"}, id \in Ids,
      hd \in BOOLEAN }

\* keys the upload collaborator returns, errors it fails with
Keys == {"code-file-uuid-123", "code-file-uuid-456"}

UploadErrors ==
  { ValidationError("File extension not allowed for code uploads", ""),
    NetworkError("Failed to connect to server"),
    RateLimitError(60, "An unexpected error occurred") }

WorkflowErrors ==
  { TimeoutError, ValidationError("server message", "server details") }

\* validateId that only asks for an id to be there
validateId_requiredOnly(id, field) ==
  IF id = <<>>
  THEN [throws |-> TRUE, error |-> ValidationError(field \o " is required", "")]
  ELSE [throws |-> FALSE, error |-> NoOutcome]

\* validateId(id, field = 'id')
validateId(id, field) ==
  IF id = <<>>
  THEN [throws |-> TRUE, error |-> ValidationError(field \o " is required", "")]
  ELSE IF Len(id) > MAX_ID_LENGTH \/ \E n \in 1..Len(id) : id[n] \notin ID_PATTERN_CHARS
       THEN [throws |-> TRUE,
             error |-> ValidationError("Invalid " \o field \o " format", "")]
       ELSE [throws |-> FALSE, error |-> NoOutcome]

\* StepMessage that names the loop index instead of the 1-indexed position
StepMessage_zeroBased(position, reason) ==
  "Step " \o ToString(position - 1) \o ": " \o reason

\* `Step ${i + 1}: ...`
StepMessage(position, reason) == "Step " \o ToString(position) \o ": " \o reason

\* UploadCall that uploads the trimmed source text
UploadCall_trimmed(index, codeConfig) ==
  LET extension == IF codeConfig.runtime = "python" THEN "py" ELSE "js"
      fileName  == IF Has(codeConfig, "fileName")
                   THEN codeConfig.fileName
                   ELSE "step_" \o ToString(index + 1) \o "." \o extension
  IN  [step     |-> index + 1,
       fileName |-> fileName,
       content  |-> Trim(codeConfig.code),
       language |-> IF codeConfig.runtime = "python" THEN "python" ELSE "javascript"]

\* the arguments of this.#codeUploader for the step at loop index index
UploadCall(index, codeConfig) ==
  LET extension == IF codeConfig.runtime = "python" THEN "py" ELSE "js"
      fileName  == IF Has(codeConfig, "fileName")
                   THEN codeConfig.fileName
                   ELSE "step_" \o ToString(index + 1) \o "." \o extension
  IN  [step     |-> index + 1,
       fileName |-> fileName,
       content  |-> codeConfig.code,
       language |-> IF codeConfig.runtime = "python" THEN "python" ELSE "javascript"]

\* RewriteConfig that spreads the whole codeConfig
RewriteConfig_keepCode(codeConfig, key) ==
  [f \in DOMAIN codeConfig \cup {"fileId"} |->
     IF f = "fileId" THEN key ELSE codeConfig[f]]

\* RewriteConfig that keeps nothing of codeConfig but the runtime
RewriteConfig_runtimeOnly(codeConfig, key) ==
  [f \in {"runtime", "fileId"} |-> IF f = "fileId" THEN key ELSE codeConfig[f]]

\* { ...restConfig, fileId: uploadResult.key }
RewriteConfig(codeConfig, key) ==
  LET restConfig == [f \in DOMAIN codeConfig \ {"code", "fileName"} |-> codeConfig[f]]
  IN  [f \in DOMAIN restConfig \cup {"fileId"} |->
         IF f = "fileId" THEN key ELSE restConfig[f]]

\* RewriteStep that leaves out next and condition
RewriteStep_noBranch(step, key) ==
  [type |-> step.type, name |-> step.name,
   config |-> RewriteConfig(step.config, key),
   next |-> "undefined", condition |-> "undefined"]

\* the step pushed for a code step once its upload resolved
RewriteStep(step, key) ==
  [type |-> step.type, name |-> step.name,
   config |-> RewriteConfig(step.config, key),
   next |-> step.next, condition |-> step.condition]

\* PassThrough that takes code and fileName out of every config
PassThrough_stripCode(step) ==
  [type |-> step.type, name |-> step.name,
   config |-> [f \in DOMAIN step.config \ {"code", "fileName"} |-> step.config[f]],
   next |-> step.next, condition |-> step.condition]

\* the step pushed for any other step
PassThrough(step) ==
  [type |-> step.type, name |-> step.name, config |-> step.config,
   next |-> step.next, condition |-> step.condition]

\* processSteps from loop index index on, with processedSteps so far, up to
\* where it awaits an upload, throws or returns; calls are the upload calls
\* it makes on the way
Suspended(kind, index, processed, calls, error) ==
  [kind |-> kind, stepIndex |-> index, processedSteps |-> processed,
   calls |-> calls, error |-> error]

RECURSIVE processSteps(_, _, _)
processSteps(steps, index, processed) ==
  IF ~(index < Len(steps))
  THEN Suspended("return", index, processed, <<>>, NoOutcome)
  ELSE LET step == steps[index + 1]
       IN  IF step.type = "code"
           THEN LET codeConfig == step.config
                IN  IF ~(Has(codeConfig, "runtime") /\ codeConfig.runtime # "")
                    THEN Suspended("throw", index, processed, <<>>,
                           ValidationError(StepMessage(index + 1,
                             "runtime is required for code steps (python or node)"), ""))
                    ELSE IF codeConfig.runtime \notin {"python", "node"}
                    THEN Suspended("throw", index, processed, <<>>,
                           ValidationError(StepMessage(index + 1,
                             "runtime must be 'python' or 'node'"), ""))
                    ELSE IF ~(Has(codeConfig, "code") /\ Trim(codeConfig.code) # <<>>)
                    THEN Suspended("throw", index, processed, <<>>,
                           ValidationError(StepMessage(index + 1,
                             "code content is required for code steps"), ""))
                    ELSE Suspended("await", index, processed,
                           <<UploadCall(index, codeConfig)>>, NoOutcome)
           ELSE processSteps(steps, index + 1, Append(processed, PassThrough(step)))

\* the body of the workflow request: { ...data, steps: processedSteps }
WorkflowBody(processed) ==
  [method   |-> IF call.op = "create" THEN "POST" ELSE "PATCH",
   hasName  |-> call.hasName,
   name     |-> call.name,
   hasSteps |-> call.hasSteps,
   steps    |-> processed]

\* Advance that sends the workflow request without waiting for the upload
Advance_eager(r, flying) ==
  /\ uploadCalls' = uploadCalls \o r.calls
  /\ inFlight' = flying \cup { r.calls[n].step : n \in 1..Len(r.calls) }
  /\ stepIndex' = r.stepIndex
  /\ processedSteps' = r.processedSteps
  /\ CASE r.kind = "throw" ->
            /\ opc' = "done"
            /\ callResult' = r.error
            /\ UNCHANGED workflowRequests
       [] r.kind = "await" ->
            /\ opc' = "uploading"
            /\ workflowRequests' = Append(workflowRequests, WorkflowBody(r.processedSteps))
            /\ UNCHANGED callResult
       [] OTHER ->
            /\ opc' = "posting"
            /\ workflowRequests' = Append(workflowRequests, WorkflowBody(r.processedSteps))
            /\ UNCHANGED callResult

\* create / update go on after processSteps suspended with r; flying are
\* the uploads in flight before
Advance(r, flying) ==
  /\ uploadCalls' = uploadCalls \o r.calls
  /\ inFlight' = flying \cup { r.calls[n].step : n \in 1..Len(r.calls) }
  /\ stepIndex' = r.stepIndex
  /\ processedSteps' = r.processedSteps
  /\ CASE r.kind = "throw" ->
            /\ opc' = "done"
            /\ callResult' = r.error
            /\ UNCHANGED workflowRequests
       [] r.kind = "await" ->
            /\ opc' = "uploading"
            /\ UNCHANGED <<callResult, workflowRequests>>
       [] OTHER ->
            /\ opc' = "posting"
            /\ workflowRequests' = Append(workflowRequests, WorkflowBody(r.processedSteps))
            /\ UNCHANGED callResult

\* create / update throw before processSteps
Reject(error) ==
  /\ opc' = "done"
  /\ callResult' = error
  /\ UNCHANGED <<stepIndex, processedSteps, uploadCalls, inFlight, workflowRequests>>

\* create that starts the uploads of all code steps at once
create_parallel ==
  /\ opc = "idle"
  /\ call.op = "create"
  /\ IF ~(call.hasData /\ call.hasName /\ Trim(call.name) # <<>>)
     THEN Reject(ValidationError("name is required", ""))
     ELSE IF ~call.hasSteps \/ Len(call.steps) = 0
          THEN Reject(ValidationError("At least one step is required", ""))
          ELSE LET r == processSteps(call.steps, 0, <<>>)
                   P == { k \in 1..Len(call.steps) :
                            /\ call.steps[k].type = "code"
                            /\ Has(call.steps[k].config, "runtime")
                            /\ Has(call.steps[k].config, "code") }
                   all == [n \in 1..Cardinality(P) |->
                            LET k == CHOOSE k \in P : Cardinality({j \in P : j < k}) = n - 1
                            IN  UploadCall(k - 1, call.steps[k].config)]
               IN  IF r.kind = "await"
                   THEN Advance([r EXCEPT !.calls = all], inFlight)
                   ELSE Advance(r, inFlight)
  /\ UNCHANGED <<call, uploaded, failedUploads>>
  /\ UNCHANGED <<httpVars, pairVars, delayVars, clientVars>>

\* create(data) up to its first await
create ==
  /\ opc = "idle"
  /\ call.op = "create"
  /\ IF ~(call.hasData /\ call.hasName /\ Trim(call.name) # <<>>)
     THEN Reject(ValidationError("name is required", ""))
     ELSE IF ~call.hasSteps \/ Len(call.steps) = 0
          THEN Reject(ValidationError("At least one step is required", ""))
          ELSE Advance(processSteps(call.steps, 0, <<>>), inFlight)
  /\ UNCHANGED <<call, uploaded, failedUploads>>
  /\ UNCHANGED <<httpVars, pairVars, delayVars, clientVars>>

\* update(id, data) up to its first await
update ==
  /\ opc = "idle"
  /\ call.op = "update"
  /\ IF validateId(call.id, "id").throws
     THEN Reject(validateId(call.id, "id").error)
     ELSE IF ~call.hasData \/ (~call.hasName /\ ~call.hasSteps)
          THEN Reject(ValidationError("Update data is required", ""))
          ELSE IF call.hasSteps /\ Len(call.steps) > 0
               THEN Advance(processSteps(call.steps, 0, <<>>), inFlight)
               ELSE \* no step is processed: data goes out as it is
                    Advance(Suspended("return", 0, call.steps, <<>>, NoOutcome), inFlight)
  /\ UNCHANGED <<call, uploaded, failedUploads>>
  /\ UNCHANGED <<httpVars, pairVars, delayVars, clientVars>>

\* validateId(id, field), then the request
ValidateThenRequest(field, method) ==
  IF validateId(call.id, field).throws
  THEN Reject(validateId(call.id, field).error)
  ELSE /\ opc' = "posting"
       /\ workflowRequests' =
            Append(workflowRequests,
                   [method |-> method, hasName |-> FALSE, name |-> <<>>,
                    hasSteps |-> FALSE, steps |-> <<>>])
       /\ UNCHANGED <<stepIndex, processedSteps, uploadCalls, inFlight, callResult>>

\* get(id) up to its await
get ==
  /\ opc = "idle"
  /\ call.op = "get"
  /\ ValidateThenRequest("id", "GET")
  /\ UNCHANGED <<call, uploaded, failedUploads>>
  /\ UNCHANGED <<httpVars, pairVars, delayVars, clientVars>>

\* delete(id) up to its return
delete ==
  /\ opc = "idle"
  /\ call.op = "delete"
  /\ ValidateThenRequest("id", "DELETE")
  /\ UNCHANGED <<call, uploaded, failedUploads>>
  /\ UNCHANGED <<httpVars, pairVars, delayVars, clientVars>>

\* updateVisibility(id, data) up to its await
updateVisibility ==
  /\ opc = "idle"
  /\ call.op = "updateVisibility"
  /\ ValidateThenRequest("id", "PATCH")
  /\ UNCHANGED <<call, uploaded, failedUploads>>
  /\ UNCHANGED <<httpVars, pairVars, delayVars, clientVars>>

\* trigger(workflowKey, input) up to its return
trigger ==
  /\ opc = "idle"
  /\ call.op = "trigger"
  /\ ValidateThenRequest("workflowKey", "POST")
  /\ UNCHANGED <<call, uploaded, failedUploads>>
  /\ UNCHANGED <<httpVars, pairVars, delayVars, clientVars>>

\* UploadResolve that rewrites the config object of the caller's step in
\* place and pushes that object
UploadResolve_inPlace ==
  /\ opc = "uploading"
  /\ \E key \in Keys :
       /\ uploaded' = Append(uploaded, [step |-> stepIndex + 1, key |-> key])
       /\ call' = [call EXCEPT !.steps[stepIndex + 1].config = RewriteConfig(@, key)]
       /\ Advance(processSteps(call.steps, stepIndex + 1,
                    Append(processedSteps,
                           RewriteStep(call.steps[stepIndex + 1], key))),
                  inFlight \ {stepIndex + 1})
  /\ UNCHANGED failedUploads
  /\ UNCHANGED <<httpVars, pairVars, delayVars, clientVars>>

\* the awaited upload resolves: the step is pushed and the loop goes on
UploadResolve ==
  /\ opc = "uploading"
  /\ \E key \in Keys :
       /\ uploaded' = Append(uploaded, [step |-> stepIndex + 1, key |-> key])
       /\ Advance(processSteps(call.steps, stepIndex + 1,
                    Append(processedSteps,
                           RewriteStep(call.steps[stepIndex + 1], key))),
                  inFlight \ {stepIndex + 1})
  /\ UNCHANGED <<call, failedUploads>>
  /\ UNCHANGED <<httpVars, pairVars, delayVars, clientVars>>

\* UploadReject that catches the error and goes on with the next step
UploadReject_skip ==
  /\ opc = "uploading"
  /\ \E error \in UploadErrors :
       failedUploads' = Append(failedUploads, [step |-> stepIndex + 1, error |-> error])
  /\ Advance(processSteps(call.steps, stepIndex + 1,
                Append(processedSteps, PassThrough(call.steps[stepIndex + 1]))),
             inFlight \ {stepIndex + 1})
  /\ UNCHANGED <<call, uploaded>>
  /\ UNCHANGED <<httpVars, pairVars, delayVars, clientVars>>

\* the awaited upload rejects: nothing catches the error
UploadReject ==
  /\ opc = "uploading"
  /\ \E error \in UploadErrors :
       /\ failedUploads' = Append(failedUploads, [step |-> stepIndex + 1, error |-> error])
       /\ opc' = "done"
       /\ callResult' = error
  /\ inFlight' = inFlight \ {stepIndex + 1}
  /\ UNCHANGED <<call, stepIndex, processedSteps, uploadCalls, uploaded, workflowRequests>>
  /\ UNCHANGED <<httpVars, pairVars, delayVars, clientVars>>

\* the awaited http.post / http.patch resolves
WorkflowResolve ==
  /\ opc = "posting"
  /\ opc' = "done"
  /\ callResult' = Value("workflow")
  /\ UNCHANGED <<call, stepIndex, processedSteps, uploadCalls, inFlight, uploaded,
                 failedUploads, workflowRequests>>
  /\ UNCHANGED <<httpVars, pairVars, delayVars, clientVars>>

\* the awaited http.post / http.patch rejects
WorkflowReject ==
  /\ opc = "posting"
  /\ \E error \in WorkflowErrors :
       /\ opc' = "done"
       /\ callResult' = error
  /\ UNCHANGED <<call, stepIndex, processedSteps, uploadCalls, inFlight, uploaded,
                 failedUploads, workflowRequests>>
  /\ UNCHANGED <<httpVars, pairVars, delayVars, clientVars>>

\* no HttpClient.request is under way
HttpParked ==
  /\ cfg = [timeout |-> TIMEOUTS.DEFAULT, hasSignal |-> FALSE,
            baseUrl |-> "https://workflows.neurana.io", data |-> "undefined"]
  /\ pc = "parked"
  /\ now = 0
  /\ callStart = 0
  /\ attempt = 0
  /\ fetchCalls = 0
  /\ attemptStart = 0
  /\ history = <<>>
  /\ last = NoAttempt
  /\ delays = <<>>
  /\ sleepUntil = 0
  /\ timerArmed = FALSE
  /\ timerDue = 0
  /\ controllerAborted = FALSE
  /\ callerAborted = FALSE
  /\ handled = NoResponse
  /\ bodyRead = "none"
  /\ callerData = "undefined"
  /\ init = NoInit
  /\ sent = <<>>
  /\ outcome = NoOutcome

OrchInit ==
  /\ HttpParked
  /\ PairParked
  /\ DelayParked
  /\ ClientParked
  /\ call \in Calls
  /\ opc = "idle"
  /\ stepIndex = 0
  /\ processedSteps = <<>>
  /\ uploadCalls = <<>>
  /\ inFlight = {}
  /\ uploaded = <<>>
  /\ failedUploads = <<>>
  /\ workflowRequests = <<>>
  /\ callResult = NoOutcome

OrchNext ==
  \/ create
  \/ update
  \/ get
  \/ delete
  \/ updateVisibility
  \/ trigger
  \/ UploadResolve
  \/ UploadReject
  \/ WorkflowResolve
  \/ WorkflowReject

OrchSpec == OrchInit /\ [][OrchNext]_vars

(***************************************************************************)
(* Two operations on one HttpClient.  The client has read-only fields      *)
(* only; url, controller, timeout and timeoutId are locals of each         *)
(* request call, attempt is a parameter of each executeWithRetry call.     *)
(***************************************************************************)
Ops == {1, 2}

PairTimeouts == {RETRY.INITIAL_DELAY, 3 * RETRY.INITIAL_DELAY}

\* what the transport answers or throws in a pair of operations
PairResponses ==
  { r \in Responses :
      /\ r.status \in {200, 404, 503}
      /\ r.isJson
      /\ r.body = "errorObject" }

PairErrors ==
  { e \in TransportErrors : e.isError /\ e.message \in {<<"fetch", "failed">>,
                                                         <<"socket", "hang", "up">>} }

\* the locals of a request call that has not been made yet
IdleOp(timeout) ==
  [pc |-> "idle", timeout |-> timeout, callStart |-> 0, attempt |-> 0,
   fetchCalls |-> 0, sleepUntil |-> 0, timerArmed |-> FALSE, timerDue |-> 0,
   controllerAborted |-> FALSE, handled |-> NoResponse, outcome |-> NoOutcome]

PairInit ==
  /\ HttpParked
  /\ OrchParked
  /\ DelayParked
  /\ ClientParked
  /\ ops \in [Ops -> {IdleOp(t) : t \in PairTimeouts}]
  /\ pairNow = 0
  /\ actor = 0

\* operation k goes from its locals to next; nothing else changes
OpStep(k, next) ==
  /\ ops' = [ops EXCEPT ![k] = next]
  /\ actor' = k
  /\ UNCHANGED pairNow
  /\ UNCHANGED <<httpVars, orchVars, delayVars, clientVars>>

\* the catch and finally of request in operation o
OpFinish(o, result) ==
  [o EXCEPT !.pc = "done", !.outcome = result, !.timerArmed = FALSE]

\* await this.sleep(calculateDelay(attempt)) in operation o
OpStartSleep(o) ==
  [o EXCEPT !.pc = "sleeping", !.sleepUntil = pairNow + calculateDelay(o.attempt)]

\* handleResponse of operation o once the body read settled
OpHandle(o, response, readOk, readError) ==
  LET r == handleResponse(response, readOk, readError)
  IN  IF r.returns THEN OpFinish(o, r.value)
      ELSE OpFinish(o, handleError(r.thrown))

\* request up to its first await: setTimeout and the first fetch
PairRequest(k) ==
  /\ ops[k].pc = "idle"
  /\ OpStep(k, [ops[k] EXCEPT !.pc = "fetching", !.callStart = pairNow,
                              !.timerDue = pairNow + ops[k].timeout,
                              !.timerArmed = TRUE, !.attempt = 1,
                              !.fetchCalls = 1])

PairFetchResolve(k) ==
  /\ ops[k].pc = "fetching"
  /\ ~ops[k].controllerAborted
  /\ \E response \in PairResponses :
       OpStep(k, IF shouldRetry(response.status, ops[k].attempt)
                 THEN OpStartSleep(ops[k])
                 ELSE IF NeedsBody(response)
                      THEN [ops[k] EXCEPT !.pc = "reading", !.handled = response]
                      ELSE OpHandle([ops[k] EXCEPT !.handled = response],
                                    response, TRUE, NoError))

\* the catch block of executeWithRetry in operation k
OpCatchFetch(k, error) ==
  OpStep(k, IF isRetryableError(error) /\ ops[k].attempt < RETRY.MAX_ATTEMPTS
            THEN OpStartSleep(ops[k])
            ELSE OpFinish(ops[k], handleError(ThrownRaw(error))))

PairFetchReject(k) ==
  /\ ops[k].pc = "fetching"
  /\ ~ops[k].controllerAborted
  /\ \E error \in PairErrors : OpCatchFetch(k, error)

PairFetchAbort(k) ==
  /\ ops[k].pc = "fetching"
  /\ ops[k].controllerAborted
  /\ OpCatchFetch(k, AbortError)

PairSleepDone(k) ==
  /\ ops[k].pc = "sleeping"
  /\ pairNow >= ops[k].sleepUntil
  /\ OpStep(k, [ops[k] EXCEPT !.pc = "fetching", !.attempt = @ + 1,
                              !.fetchCalls = @ + 1])

PairBodyRead(k) ==
  /\ ops[k].pc = "reading"
  /\ ~ops[k].controllerAborted
  /\ OpStep(k, OpHandle(ops[k], ops[k].handled, TRUE, NoError))

PairBodyAbort(k) ==
  /\ ops[k].pc = "reading"
  /\ ops[k].controllerAborted
  /\ OpStep(k, OpHandle(ops[k], ops[k].handled, FALSE, AbortError))

\* PairTimerFire with one AbortController kept by the client for all
\* operations
PairTimerFire_shared(k) ==
  /\ ops[k].timerArmed
  /\ pairNow >= ops[k].timerDue
  /\ ops' = [j \in Ops |->
               [ops[j] EXCEPT !.controllerAborted = TRUE,
                              !.timerArmed = IF j = k THEN FALSE ELSE @]]
  /\ actor' = k
  /\ UNCHANGED pairNow
  /\ UNCHANGED <<httpVars, orchVars, delayVars, clientVars>>

\* the deadline timer of operation k fires: controller.abort()
PairTimerFire(k) ==
  /\ ops[k].timerArmed
  /\ pairNow >= ops[k].timerDue
  /\ OpStep(k, [ops[k] EXCEPT !.timerArmed = FALSE, !.controllerAborted = TRUE])

\* something of operation k has to run before the clock moves on
OpUrgent(k) ==
  \/ ops[k].timerArmed /\ pairNow >= ops[k].timerDue
  \/ ops[k].pc = "sleeping" /\ pairNow >= ops[k].sleepUntil
  \/ ops[k].pc \in {"fetching", "reading"} /\ ops[k].controllerAborted

PairTick ==
  /\ \E k \in Ops : ops[k].pc \in {"fetching", "sleeping", "reading"}
  /\ \A k \in Ops : ~OpUrgent(k)
  /\ pairNow < MaxTicks * RETRY.INITIAL_DELAY
  /\ pairNow' = pairNow + RETRY.INITIAL_DELAY
  /\ actor' = 0
  /\ UNCHANGED ops
  /\ UNCHANGED <<httpVars, orchVars, delayVars, clientVars>>

PairNext ==
  \/ \E k \in Ops : PairRequest(k)
  \/ \E k \in Ops : PairFetchResolve(k)
  \/ \E k \in Ops : PairFetchReject(k)
  \/ \E k \in Ops : PairFetchAbort(k)
  \/ \E k \in Ops : PairSleepDone(k)
  \/ \E k \in Ops : PairBodyRead(k)
  \/ \E k \in Ops : PairBodyAbort(k)
  \/ \E k \in Ops : PairTimerFire(k)
  \/ PairTick

PairSpec == PairInit /\ [][PairNext]_vars

(***************************************************************************)
(* calculateDelay over attempt numbers beyond those that request reaches   *)
(***************************************************************************)
\* the largest attempt number calculateDelay is applied to
MaxAttemptNumber == 16

DelayInit ==
  /\ HttpParked
  /\ OrchParked
  /\ PairParked
  /\ ClientParked
  /\ firstAttempt \in 1..MaxAttemptNumber
  /\ delayLog = <<>>

\* this.calculateDelay(attempt) for the next attempt number
ApplyCalculateDelay ==
  /\ firstAttempt + Len(delayLog) <= MaxAttemptNumber
  /\ delayLog' = Append(delayLog, calculateDelay(firstAttempt + Len(delayLog)))
  /\ UNCHANGED firstAttempt
  /\ UNCHANGED <<httpVars, orchVars, pairVars, clientVars>>

DelayNext == ApplyCalculateDelay

DelaySpec == DelayInit /\ [][DelayNext]_vars

(***************************************************************************)
(* NeuranaClient (index.ts): the constructor with validateConfig and       *)
(* validateEndpointSecurity, and the URL that HttpClient.buildUrl gives to *)
(* a call made on one of the client's HttpClients.  Text is a sequence of  *)
(* characters.                                                             *)
(***************************************************************************)
\* the most calls made on the HttpClients of one client
MaxCalls == 1

\* String.prototype.startsWith
StartsWith(text, prefix) ==
  /\ Len(text) >= Len(prefix)
  /\ SubSeq(text, 1, Len(prefix)) = prefix

\* String.prototype.includes on text
IncludesText(text, part) ==
  \E i \in 1..(Len(text) - Len(part) + 1) : SubSeq(text, i, i + Len(part) - 1) = part

\* the index of the first character of text at or after i that is in
\* chars, Len(text) + 1 when there is none
RECURSIVE IndexOfAny(_, _, _)
IndexOfAny(text, chars, i) ==
  IF i > Len(text) \/ text[i] \in chars THEN i ELSE IndexOfAny(text, chars, i + 1)

\* VALIDATION of constants/index.ts
VALIDATION == [MIN_API_KEY_LENGTH |-> 10, MAX_API_KEY_LENGTH |-> 256]

ApiKeyChars ==
  {"a", "b", "c", "d", "e", "f", "g", "h", "i", "j", "k", "l", "m", "n", "o", "p",
   "q", "r", "s", "t", "u", "v", "w", "x", "y", "z", "A", "B", "C", "D", "E", "F",
   "G", "H", "I", "J", "K", "L", "M", "N", "O", "P", "Q", "R", "S", "T", "U", "V",
   "W", "X", "Y", "Z", "0", "1", "2", "3", "4", "5", "6", "7", "8", "9", "_"}

\* VALIDATION.API_KEY_PATTERN.test(key)
API_KEY_PATTERN_test(key) ==
  /\ StartsWith(key, <<"n", "r", "n", "_">>)
  /\ Len(key) > 4
  /\ \A i \in 5..Len(key) : key[i] \in ApiKeyChars

ConfigurationError(message) ==
  [NeuranaError(message, ERROR_CODES.INVALID_CONFIG, 0, "")
     EXCEPT !.class = "ConfigurationError"]

\* a value of config.apiKey; the type says string, a caller can pass anything
StringValue(text) == [type |-> "string", text |-> text, number |-> 0]

UndefinedValue == [type |-> "undefined", text |-> <<>>, number |-> 0]

NumberValue(n) == [type |-> "number", text |-> <<>>, number |-> n]

BooleanValue(b) == [type |-> "boolean", text |-> <<>>, number |-> IF b THEN 1 ELSE 0]

\* !value is false
Truthy(value) ==
  CASE value.type = "string" -> value.text # <<>>
    [] value.type = "number" -> value.number # 0
    [] value.type = "boolean" -> value.number = 1
    [] OTHER -> FALSE

ApiKeys ==
  { UndefinedValue, [type |-> "null", text |-> <<>>, number |-> 0], StringValue(<<>>), NumberValue(123), NumberValue(0),
    StringValue(<<"s", "h", "o", "r", "t">>),
    StringValue(<<"t", "e", "s", "t", "-", "k", "e", "y", "-", "1", "2", "3", "4", "5">>),
    StringValue(<<" ", " ", " ", "s", "h", "o", "r", "t", " ", " ", " ", " ", " ">>),
    StringValue(<<" ", " ", "t", "e", "s", "t", "-", "k", "e", "y", "-", "1", "2", "3", "4", "5", " ">>),
    StringValue(<<"n", "r", "n", "_", "@", "i", "n", "v", "a", "l", "i", "d", "!">>),
    StringValue(<<"n", "r", "n", "_", "l", "i", "v", "e", "_", "4", "f", "9", "a", "2", "c">>),
    StringValue(<<"n", "r", "n", "_">>),
    StringValue([i \in 1..VALIDATION.MAX_API_KEY_LENGTH |-> "k"]),
    StringValue([i \in 1..(VALIDATION.MAX_API_KEY_LENGTH + 1) |-> "k"]) }

\* an optional string member of the config
NoText == [defined |-> FALSE, text |-> <<>>]

EndpointUrls ==
  { NoText } \cup
  { [defined |-> TRUE, text |-> text] : text \in {
    <<>>,
    <<"h", "t", "t", "p", "s", ":", "/", "/", "a", "p", "i", ".", "e", "x", "a", "m", "p", "l", "e", ".", "c", "o", "m">>,
    <<"h", "t", "t", "p", ":", "/", "/", "a", "p", "i", ".", "e", "x", "a", "m", "p", "l", "e", ".", "c", "o", "m">>,
    <<"h", "t", "t", "p", ":", "/", "/", "l", "o", "c", "a", "l", "h", "o", "s", "t", ":", "3", "0", "0", "0">>,
    <<"h", "t", "t", "p", ":", "/", "/", "1", "2", "7", ".", "0", ".", "0", ".", "1", ":", "8", "0", "8", "0", "/", "v", "1">>,
    <<"h", "t", "t", "p", ":", "/", "/", "l", "o", "c", "a", "l", "h", "o", "s", "t", ".", "e", "v", "i", "l", ".", "c", "o", "m">>,
    <<"h", "t", "t", "p", ":", "/", "/", "e", "v", "i", "l", ".", "c", "o", "m", "/", "?", "h", "o", "s", "t", "=", "1", "2", "7", ".", "0", ".", "0", ".", "1">>,
    <<"l", "o", "c", "a", "l", "h", "o", "s", "t">> } }

\* every api key with the default endpoints, every api key with every
\* baseUrl, and every combination of endpoints with an accepted api key
NeuranaConfigInputs ==
  { config \in [apiKey : ApiKeys, baseUrl : EndpointUrls, mainApiUrl : EndpointUrls,
               sdkBaseUrl : EndpointUrls,
               allowInsecureHttp : {"undefined", "false", "true"}] :
      \/ config.mainApiUrl = NoText /\ config.sdkBaseUrl = NoText
      \/ config.apiKey = StringValue(<<"t", "e", "s", "t", "-", "k", "e", "y", "-", "1", "2", "3", "4", "5">>) }

\* url.split("?")[0]
BeforeQuery(text) == SubSeq(text, 1, IndexOfAny(text, {"?"}, 1) - 1)

\* validateEndpointSecurity(url, allowInsecure): whether it throws and what
\* it gave to logger.warn
validateEndpointSecurity(url, allowInsecure) ==
  IF ~url.defined \/ url.text = <<>>
  THEN [throws |-> FALSE, warned |-> <<>>]
  ELSE LET isSecure == StartsWith(url.text, <<"h", "t", "t", "p", "s", ":", "/", "/">>)
           isLocalhost == \/ IncludesText(url.text, <<"l", "o", "c", "a", "l", "h", "o", "s", "t">>)
                          \/ IncludesText(url.text, <<"1", "2", "7", ".", "0", ".", "0", ".", "1">>)
       IN  IF ~isSecure /\ ~isLocalhost
           THEN IF allowInsecure = "true"
                THEN [throws |-> FALSE, warned |-> <<BeforeQuery(url.text)>>]
                ELSE [throws |-> TRUE, warned |-> <<>>]
           ELSE [throws |-> FALSE, warned |-> <<>>]

\* the three validateEndpointSecurity calls that end validateConfig
validateEndpoints(config) ==
  LET first  == validateEndpointSecurity(config.baseUrl, config.allowInsecureHttp)
      second == validateEndpointSecurity(config.mainApiUrl, config.allowInsecureHttp)
      third  == validateEndpointSecurity(config.sdkBaseUrl, config.allowInsecureHttp)
      https  == "HTTPS is required for non-localhost endpoints"
  IN  IF first.throws THEN [throws |-> TRUE, message |-> https, warned |-> <<>>]
      ELSE IF second.throws THEN [throws |-> TRUE, message |-> https, warned |-> first.warned]
      ELSE IF third.throws THEN [throws |-> TRUE, message |-> https, warned |-> first.warned \o second.warned]
      ELSE [throws |-> FALSE, message |-> "",
            warned |-> first.warned \o second.warned \o third.warned]

\* validateConfig(config): whether it throws, with what message, and what
\* was logged before
validateConfig(config) ==
  IF ~Truthy(config.apiKey) THEN [throws |-> TRUE, message |-> "API key is required", warned |-> <<>>]
  ELSE IF config.apiKey.type # "string" THEN [throws |-> TRUE, message |-> "API key must be a string", warned |-> <<>>]
  ELSE LET key == Trim(config.apiKey.text)
       IN  IF Len(key) < VALIDATION.MIN_API_KEY_LENGTH
           THEN [throws |-> TRUE, message |-> "Invalid API key format", warned |-> <<>>]
           ELSE IF Len(key) > VALIDATION.MAX_API_KEY_LENGTH
           THEN [throws |-> TRUE, message |-> "API key exceeds maximum length", warned |-> <<>>]
           ELSE IF StartsWith(key, <<"n", "r", "n", "_">>) /\ ~API_KEY_PATTERN_test(key)
           THEN [throws |-> TRUE, message |-> "Invalid API key format", warned |-> <<>>]
           ELSE validateEndpoints(config)

\* the HttpClients the constructor creates
HttpClients == {"workflowsHttp", "mainHttp"}

BASE_URL == <<"h", "t", "t", "p", "s", ":", "/", "/", "w", "o", "r", "k", "f", "l", "o", "w", "s", ".", "n", "e", "u", "r", "a", "n", "a", ".", "i", "o">>

MAIN_API_URL == <<"h", "t", "t", "p", "s", ":", "/", "/", "a", "p", "i", ".", "n", "e", "u", "r", "a", "n", "a", ".", "i", "o">>

\* the baseUrl an HttpClient is created with: config.baseUrl ?? BASE_URL
BaseUrlOf(http, config) ==
  IF http = "workflowsHttp"
  THEN IF config.baseUrl.defined THEN config.baseUrl.text ELSE BASE_URL
  ELSE IF config.mainApiUrl.defined THEN config.mainApiUrl.text ELSE MAIN_API_URL

ClientInit ==
  /\ HttpParked
  /\ OrchParked
  /\ PairParked
  /\ DelayParked
  /\ clientConfig \in NeuranaConfigInputs
  /\ clientPc = "new"
  /\ components = {}
  /\ warnings = <<>>
  /\ constructError = NoOutcome
  /\ issued = <<>>

\* new NeuranaClient(config)
constructor ==
  /\ clientPc = "new"
  /\ warnings' = validateConfig(clientConfig).warned
  /\ IF validateConfig(clientConfig).throws
     THEN /\ clientPc' = "threw"
          /\ constructError' = ConfigurationError(validateConfig(clientConfig).message)
          /\ UNCHANGED components
     ELSE /\ clientPc' = "constructed"
          /\ components' = HttpClients \cup
                            {"code", "secrets", "apiKeys", "executions", "workflows"}
          /\ UNCHANGED constructError
  /\ UNCHANGED <<clientConfig, issued>>
  /\ UNCHANGED <<httpVars, orchVars, pairVars, delayVars>>

(***************************************************************************)
(* HttpClient.buildUrl: new URL(path, base), searchParams.set, toString    *)
(***************************************************************************)
\* the index of the ":" that ends the scheme of an absolute URL, 0 when the
\* text does not start with a scheme
SchemeEnd(text) ==
  LET i == IndexOfAny(text, {":"}, 1)
      letters ==
        {"a", "b", "c", "d", "e", "f", "g", "h", "i", "j", "k", "l", "m", "n", "o",
         "p", "q", "r", "s", "t", "u", "v", "w", "x", "y", "z"}
  IN  IF i > 1 /\ i <= Len(text) /\ \A j \in 1..(i - 1) : text[j] \in letters
      THEN i ELSE 0

\* scheme://host[:port] of an absolute URL
Origin(text) == SubSeq(text, 1, IndexOfAny(text, {"/", "?", "#"}, SchemeEnd(text) + 3) - 1)

\* the decimal text of a number
RECURSIVE NumberText(_)
NumberText(n) ==
  IF n < 0 THEN <<"-">> \o NumberText(0 - n)
  ELSE IF n < 10 THEN <<Digits[n + 1]>>
  ELSE NumberText(n \div 10) \o <<Digits[(n % 10) + 1]>>

\* String(value)
String(value) ==
  CASE value.type = "string" -> value.text
    [] value.type = "number" -> NumberText(value.number)
    [] value.type = "boolean" -> IF value.number = 1 THEN <<"t", "r", "u", "e">> ELSE <<"f", "a", "l", "s", "e">>
    [] value.type = "null" -> <<"n", "u", "l", "l">>
    [] OTHER -> <<"u", "n", "d", "e", "f", "i", "n", "e", "d">>

\* URLSearchParams.set(key, text) on a list of pairs
SearchSet(search, key, text) ==
  IF \E i \in 1..Len(search) : search[i].key = key
  THEN [i \in 1..Len(search) |->
          IF search[i].key = key THEN [key |-> key, text |-> text] ELSE search[i]]
  ELSE Append(search, [key |-> key, text |-> text])

\* the forEach over Object.entries(params) of buildUrl
RECURSIVE setSearchParams(_, _)
setSearchParams(entries, search) ==
  IF entries = <<>> THEN search
  ELSE setSearchParams(Tail(entries),
                       IF Head(entries).value.type # "undefined"
                       THEN SearchSet(search, Head(entries).key, String(Head(entries).value))
                       ELSE search)

\* application/x-www-form-urlencoded serialization of one name or value
RECURSIVE UrlEncode(_)
UrlEncode(text) ==
  IF text = <<>> THEN <<>>
  ELSE (CASE Head(text) = " " -> <<"+">>
          [] Head(text) = "&" -> <<"%", "2", "6">>
          [] Head(text) = "=" -> <<"%", "3", "D">>
          [] OTHER -> <<Head(text)>>) \o UrlEncode(Tail(text))

\* url.search as toString writes it
RECURSIVE SearchText(_)
SearchText(search) ==
  IF search = <<>> THEN <<>>
  ELSE UrlEncode(search[1].key) \o <<"=">> \o UrlEncode(search[1].text)
       \o (IF Len(search) > 1 THEN <<"&">> \o SearchText(Tail(search)) ELSE <<>>)

\* buildUrl that serializes every entry of params, an undefined value too
buildUrlHref_serializeAll(baseUrl, path, params) ==
  IF SchemeEnd(baseUrl) = 0
  THEN [throws |-> TRUE, href |-> <<>>]
  ELSE LET entries == [i \in 1..Len(params.entries) |->
                         [key |-> params.entries[i].key,
                          value |-> [type |-> "string", number |-> 0,
                                     text |-> String(params.entries[i].value)]]]
           search == IF params.given THEN setSearchParams(entries, <<>>) ELSE <<>>
       IN  [throws |-> FALSE,
            href |-> Origin(baseUrl) \o path \o
                     (IF search = <<>> THEN <<>> ELSE <<"?">> \o SearchText(search))]

\* buildUrl(path, params) of an HttpClient with this baseUrl: whether new URL
\* throws, and url.toString()
buildUrlHref(baseUrl, path, params) ==
  IF SchemeEnd(baseUrl) = 0
  THEN [throws |-> TRUE, href |-> <<>>]
  ELSE LET search == IF params.given THEN setSearchParams(params.entries, <<>>) ELSE <<>>
       IN  [throws |-> FALSE,
            href |-> Origin(baseUrl) \o path \o
                     (IF search = <<>> THEN <<>> ELSE <<"?">> \o SearchText(search))]

\* params of a call: not given, or an object as the list of its entries
ParamInputs ==
  { [given |-> FALSE, entries |-> <<>>] } \cup
  { [given |-> TRUE,
     entries |-> [i \in 1..Len(pairs) |-> [key |-> pairs[i][1], value |-> pairs[i][2]]]] :
      pairs \in {
        <<>>,
        << <<<<"l", "i", "m", "i", "t">>, NumberValue(10)>>, <<<<"s", "t", "a", "t", "u", "s">>, StringValue(<<"a", "c", "t", "i", "v", "e">>)>> >>,
        << <<<<"l", "i", "m", "i", "t">>, NumberValue(10)>>, <<<<"c", "u", "r", "s", "o", "r">>, UndefinedValue>> >>,
        << <<<<"c", "u", "r", "s", "o", "r">>, UndefinedValue>> >>,
        << <<<<"c", "u", "r", "s", "o", "r">>, UndefinedValue>>, <<<<"q">>, StringValue(<<"a", " ", "b", "&", "c", "=", "d">>)>>,
           <<<<"a", "l", "l">>, BooleanValue(TRUE)>>, <<<<"p", "a", "g", "e">>, NumberValue(0)>> >>,
        << <<<<"n", "a", "m", "e">>, StringValue(<<>>)>>, <<<<"d", "r", "y">>, BooleanValue(FALSE)>>,
           <<<<"o", "f", "f", "s", "e", "t">>, NumberValue(-5)>>, <<<<"t", "a", "g">>, StringValue(<<"u", "n", "d", "e", "f", "i", "n", "e", "d">>)>> >> } }

Paths == { <<"/", "w", "o", "r", "k", "f", "l", "o", "w", "s">>, <<"/", "a", "p", "i", "-", "k", "e", "y", "s", "/", "k", "e", "y", "_", "1", "/", "u", "s", "a", "g", "e">> }

\* a get / post / patch / put / delete call on one of the HttpClients, up
\* to the URL that request builds for it
httpCall ==
  /\ clientPc = "constructed"
  /\ Len(issued) < MaxCalls
  /\ \E http \in HttpClients \cap components, path \in Paths, params \in ParamInputs :
       issued' = Append(issued,
                        [http |-> http, path |-> path, params |-> params,
                         url |-> buildUrlHref(BaseUrlOf(http, clientConfig), path, params)])
  /\ UNCHANGED <<clientConfig, clientPc, components, warnings, constructError>>
  /\ UNCHANGED <<httpVars, orchVars, pairVars, delayVars>>

ClientNext ==
  \/ constructor
  \/ httpCall

ClientSpec == ClientInit /\ [][ClientNext]_vars

(***************************************************************************)
(* Progress.  The event loop runs every callback that is ready: a fetch,   *)
(* a body read, an upload and a workflow request settle, a timer whose     *)
(* time has come fires, and time passes while an operation waits.          *)
(***************************************************************************)
\* time passes for a sleeping operation beyond the horizon of Tick
LateTick ==
  /\ pc = "sleeping"
  /\ now >= MaxTicks * RETRY.INITIAL_DELAY
  /\ ~TimerDue
  /\ ~SleepDue
  /\ now' = now + RETRY.INITIAL_DELAY
  /\ UNCHANGED <<orchVars, pairVars, delayVars, clientVars>>
  /\ UNCHANGED <<bodyRead, callerData, init, sent>>
  /\ UNCHANGED <<cfg, pc, callStart, attempt, fetchCalls, attemptStart, history,
                 last, delays, sleepUntil, timerArmed, timerDue,
                 controllerAborted, callerAborted, handled, outcome>>

\* one call of HttpClient.request, or one call on the workflows resource
\* (request: data only with the default timeout)
LiveInit ==
  \/ /\ Init
     /\ \/ cfg.data = "undefined"
        \/ /\ cfg.timeout = TIMEOUTS.DEFAULT
           /\ ~cfg.hasSignal
           /\ IsAbsoluteUrl(cfg.baseUrl)
  \/ OrchInit

LiveNext ==
  \/ Next
  \/ LateTick
  \/ OrchNext

\* every start, settling of an awaited call, due timer and tick is taken
Fairness ==
  /\ WF_vars(request \/ create \/ update \/ get \/ delete \/ updateVisibility \/ trigger)
  /\ WF_vars(FetchResolve \/ FetchReject \/ FetchAbort)
  /\ WF_vars(BodyRead \/ BodyFail \/ BodyAbort)
  /\ WF_vars(SleepDone)
  /\ WF_vars(TimerFire)
  /\ WF_vars(Tick \/ LateTick)
  /\ WF_vars(UploadResolve \/ UploadReject)
  /\ WF_vars(WorkflowResolve \/ WorkflowReject)

LiveSpec == LiveInit /\ [][LiveNext]_vars /\ Fairness

(***************************************************************************)
(* Properties                                                              *)
(***************************************************************************)
AllRetryableStatus ==
  /\ history # <<>>
  /\ \A i \in 1..Len(history) : history[i] = "retryable_status"

\* C1: one call of request makes at most 3 fetch attempts, whatever mix of
\* retryable statuses, other statuses and thrown errors the transport
\* produces; status retries and error retries share the attempt counter
C1_AttemptsBounded == fetchCalls <= 3 /\ attempt <= 3 /\ fetchCalls = attempt

\* the third attempt was reached by a status retry followed by an error retry
C1_Witness ==
  /\ pc = "done"
  /\ fetchCalls = 3
  /\ history[1] = "retryable_status"
  /\ history[2] = "thrown"

\* C2: when every attempt yields a retryable status there are exactly 3
\* attempts, the sleeps before attempt 2 and 3 are 1000 ms and 2000 ms, and
\* the caller gets the error the third response classifies to
C2_RetryableExhausted ==
  (pc = "done" /\ AllRetryableStatus) =>
    /\ fetchCalls = 3
    /\ Len(history) = 3
    /\ delays = <<1000, 2000>>
    /\ now - callStart >= 3000
    /\ handled = last.response
    /\ outcome.kind = "error"
    /\ IF last.response.status = 429
       THEN outcome.class = "RateLimitError" /\ outcome.statusCode = 429
       ELSE outcome.class = "NeuranaError"
            /\ outcome.statusCode = last.response.status

C2_Witness ==
  /\ pc = "done"
  /\ AllRetryableStatus
  /\ ~cfg.hasSignal
  /\ last.response.status = 503

\* C3: a response is followed by another attempt iff its status is one of
\* 408, 429, 500, 502, 503, 504 and the attempt number is below 3; any other
\* response ends the loop and is the one given to handleResponse
C3_StatusRetryIff ==
  last.type = "response" =>
    LET retry == /\ last.response.status \in {408, 429, 500, 502, 503, 504}
                 /\ attempt < 3
    IN  /\ retry => pc = "sleeping"
        /\ ~retry => /\ pc \in {"reading", "done"}
                     /\ handled = last.response
                     /\ fetchCalls = attempt

C3_Witness ==
  /\ pc = "sleeping"
  /\ last.type = "response"
  /\ last.response.status = 408
  /\ attempt = 2

\* C4: a thrown transport failure is followed by another attempt iff it is
\* an Error named TypeError or with "network" in its message and the attempt
\* number is below 3; any other failure, an abort among them, ends the
\* operation after that attempt
C4_ErrorRetryIff ==
  last.type = "thrown" =>
    LET retry == /\ last.error.isError
                 /\ (last.error.name = "TypeError"
                     \/ Includes(last.error.message, "network"))
                 /\ attempt < 3
    IN  /\ retry => pc = "sleeping"
        /\ ~retry => /\ pc = "done"
                     /\ outcome.kind = "error"
                     /\ fetchCalls = attempt
        /\ last.error.name = "AbortError" => pc = "done"

\* a network failure was retried, the abort that followed was not
C4_Witness ==
  /\ pc = "done"
  /\ history = <<"thrown", "thrown">>
  /\ last.error.name = "AbortError"
  /\ delays = <<1000>>

C6_NoFetchAfterAbort ==
  [][(controllerAborted \/ callerAborted) => fetchCalls' = fetchCalls]_vars

\* C7: a fetch that is still in flight after the deadline has passed has
\* been aborted, with or without a caller signal
C7_DeadlineAbortsFetch ==
  (pc = "fetching" /\ now > callStart + cfg.timeout) => signalAborted

\* C8 (as claimed): the deadline abort only fires once the current attempt
\* has had the full timeout
C8_PerAttemptDeadline ==
  [][(~controllerAborted /\ controllerAborted') =>
       now - attemptStart >= cfg.timeout]_vars

\* C8 (amended): the deadline is per operation: the deadline abort fires
\* exactly timeout ms after request was called, whichever attempt is running
C8_PerOperationDeadline ==
  [][(~controllerAborted /\ controllerAborted') =>
       now = callStart + cfg.timeout]_vars

\* the deadline fired during a retry that started after the call
C8_Witness ==
  /\ controllerAborted
  /\ attempt >= 2
  /\ attemptStart > callStart
  /\ now - attemptStart < cfg.timeout

\* C9: when request has returned or thrown, the deadline timer is not pending
C9_TimerCleared == pc = "done" => ~timerArmed

\* an error exit after the timer was armed and before it fired
C9_Witness ==
  /\ pc = "done"
  /\ fetchCalls >= 1
  /\ ~controllerAborted
  /\ outcome.kind = "error"

\* C10: request returns a value or throws a NeuranaError (or subclass)
C10_OnlyNeuranaErrors ==
  pc = "done" =>
    \/ outcome.kind = "value"
    \/ outcome.kind = "error" /\ outcome.class \in NeuranaErrorClasses

\* C11: in every workflow request that went out, no step of type 'code'
\* has a 'code' or a 'fileName' member in its config, and each has a fileId
\* that an upload returned
C11_NoRawCodeInRequest ==
  \A n \in 1..Len(workflowRequests) :
    \A m \in 1..Len(workflowRequests[n].steps) :
      LET step == workflowRequests[n].steps[m]
      IN  step.type = "code" =>
            /\ ~Has(step.config, "code")
            /\ ~Has(step.config, "fileName")
            /\ Has(step.config, "fileId")
            /\ \E u \in 1..Len(uploaded) :
                 uploaded[u] = [step |-> m, key |-> step.config.fileId]

\* a request went out whose input had a code step with a fileName override
C11_Witness ==
  /\ Len(workflowRequests) = 1
  /\ \E m \in 1..Len(call.steps) :
       /\ call.steps[m].type = "code"
       /\ Has(call.steps[m].config, "fileName")
       /\ workflowRequests[1].steps[m].type = "code"

\* the call gets past its own validations and runs processSteps
Orchestrates ==
  \/ /\ call.op = "create"
     /\ call.hasData /\ call.hasName /\ Trim(call.name) # <<>>
     /\ call.hasSteps /\ Len(call.steps) > 0
  \/ /\ call.op = "update"
     /\ ~validateId(call.id, "id").throws
     /\ call.hasData /\ call.hasSteps /\ Len(call.steps) > 0

\* a code step that processSteps refuses
InvalidCodeStep(step) ==
  /\ step.type = "code"
  /\ \/ ~Has(step.config, "runtime")
     \/ step.config.runtime \notin {"python", "node"}
     \/ ~Has(step.config, "code")
     \/ Trim(step.config.code) = <<>>

\* the message of the ValidationError for the invalid code step at position k
InvalidStepMessage(k, step) ==
  "Step " \o ToString(k) \o ": " \o
    ( IF ~Has(step.config, "runtime") \/ step.config.runtime = ""
      THEN "runtime is required for code steps (python or node)"
      ELSE IF step.config.runtime \notin {"python", "node"}
           THEN "runtime must be 'python' or 'node'"
           ELSE "code content is required for code steps" )

\* the code steps before position k
CodeStepsBefore(k) == { j \in 1..(k - 1) : call.steps[j].type = "code" }

\* C12 as stated: whenever step k is an invalid code step, the call ends
\* with the ValidationError that names Step k and the reason, no upload is
\* issued for step k or a later step, and no workflow request is made
C12_InvalidStepNamed ==
  (Orchestrates /\ opc = "done") =>
    \A k \in 1..Len(call.steps) :
      InvalidCodeStep(call.steps[k]) =>
        /\ callResult = ValidationError(InvalidStepMessage(k, call.steps[k]), "")
        /\ \A u \in 1..Len(uploadCalls) : uploadCalls[u].step < k
        /\ workflowRequests = <<>>

\* C12: once the call runs, whenever step k is an invalid code step, no
\* upload is ever issued for step k or a later step and no workflow request
\* is made; when k is
\* the first invalid code step and the uploads of all code steps before it
\* succeeded, the call ends with the ValidationError that names Step k and
\* the reason
C12_FirstInvalidStepNamed ==
  (Orchestrates /\ opc # "idle") =>
    \A k \in 1..Len(call.steps) :
      InvalidCodeStep(call.steps[k]) =>
        /\ \A u \in 1..Len(uploadCalls) : uploadCalls[u].step < k
        /\ workflowRequests = <<>>
        /\ ( /\ \A j \in 1..(k - 1) : ~InvalidCodeStep(call.steps[j])
             /\ { uploaded[u].step : u \in 1..Len(uploaded) } = CodeStepsBefore(k) )
           => /\ opc = "done"
              /\ callResult = ValidationError(InvalidStepMessage(k, call.steps[k]), "")

\* a call whose third step is the first invalid one, after an upload for an
\* earlier code step succeeded, ended with the ValidationError
C12_Witness ==
  /\ Orchestrates
  /\ opc = "done"
  /\ Len(call.steps) = 3
  /\ InvalidCodeStep(call.steps[3])
  /\ Len(uploaded) >= 1
  /\ callResult.class = "ValidationError"
  /\ uploadCalls[Len(uploadCalls)].step < 3

\* C13: when the upload for the code step at position k rejected, create /
\* update threw that same error, no upload was issued for a step after k
\* and no workflow request was made
C13_UploadFailurePropagates ==
  \A f \in 1..Len(failedUploads) :
    /\ opc = "done"
    /\ callResult = failedUploads[f].error
    /\ \A u \in 1..Len(uploadCalls) : uploadCalls[u].step <= failedUploads[f].step
    /\ workflowRequests = <<>>

\* the upload of the first of several code steps rejected, with steps after
\* it still to come
C13_Witness ==
  /\ Len(failedUploads) = 1
  /\ failedUploads[1].step < Len(call.steps)
  /\ \E k \in (failedUploads[1].step + 1)..Len(call.steps) :
       call.steps[k].type = "code" /\ ~InvalidCodeStep(call.steps[k])
  /\ callResult.class = "NetworkError"

\* C14: at most one workflow request per call, and once it is issued every
\* step has been processed and every upload call of the call has resolved:
\* none is in flight, none rejected, each code step has its upload
C14_RequestAfterAllUploads ==
  /\ Len(workflowRequests) <= 1
  /\ workflowRequests # <<>> =>
       /\ inFlight = {}
       /\ failedUploads = <<>>
       /\ Len(uploaded) = Len(uploadCalls)
       /\ \A u \in 1..Len(uploadCalls) : uploaded[u].step = uploadCalls[u].step
       /\ Len(workflowRequests[1].steps) = Len(call.steps)
       /\ { uploadCalls[u].step : u \in 1..Len(uploadCalls) }
            = { k \in 1..Len(call.steps) : call.steps[k].type = "code" }

\* a workflow request went out after two uploads
C14_Witness ==
  /\ Len(workflowRequests) = 1
  /\ Len(uploaded) = 2
  /\ call.op = "update"

\* C15: at most one upload is in flight, the upload calls are issued in
\* step order, and when an upload is issued or in flight the uploads of all
\* code steps before it have resolved
C15_UploadsSequential ==
  /\ Cardinality(inFlight) <= 1
  /\ \A u, v \in 1..Len(uploadCalls) :
       u < v => uploadCalls[u].step < uploadCalls[v].step
  /\ \A u \in 1..Len(uploadCalls) :
       /\ CodeStepsBefore(uploadCalls[u].step)
            = { uploadCalls[v].step : v \in 1..(u - 1) }
       /\ \A v \in 1..(u - 1) :
            /\ v <= Len(uploaded)
            /\ uploaded[v].step = uploadCalls[v].step
            /\ uploadCalls[v].step \notin inFlight

\* the upload of a third code step is in flight after two resolved
C15_Witness ==
  /\ opc = "uploading"
  /\ inFlight = {3}
  /\ Len(uploaded) = 2

\* C16: when processSteps returned, its output is as long as the input and
\* its i-th element has the type, name, next and condition of the i-th
\* input step; a code step carries the key of the upload of step i, any
\* other step its own config
C16_OrderAndLengthPreserved ==
  (Orchestrates /\ workflowRequests # <<>>) =>
    LET output == workflowRequests[1].steps
    IN  /\ Len(output) = Len(call.steps)
        /\ \A i \in 1..Len(call.steps) :
             /\ output[i].type = call.steps[i].type
             /\ output[i].name = call.steps[i].name
             /\ output[i].next = call.steps[i].next
             /\ output[i].condition = call.steps[i].condition
             /\ IF call.steps[i].type = "code"
                THEN \E u \in 1..Len(uploaded) :
                       uploaded[u] = [step |-> i, key |-> output[i].config.fileId]
                ELSE output[i].config = call.steps[i].config

\* three different steps, code steps among them, were processed
C16_Witness ==
  /\ Orchestrates
  /\ Len(workflowRequests) = 1
  /\ Len(call.steps) = 3
  /\ call.steps[1].type = "code"
  /\ call.steps[2].type # "code"
  /\ call.steps[3].type = "code"
  /\ call.steps[1].name # call.steps[3].name
  /\ call.steps[1].next # "undefined"
  /\ call.steps[3].condition # "undefined"
  /\ uploaded[1].key # uploaded[2].key

\* C17: a step whose type is not 'code' is pushed with its own type, name,
\* config, next and condition, and no upload call is made for it
C17_NonCodePassedThrough ==
  (Orchestrates /\ opc # "idle") =>
    \A i \in 1..Len(call.steps) :
      call.steps[i].type # "code" =>
        /\ \A u \in 1..Len(uploadCalls) : uploadCalls[u].step # i
        /\ i <= Len(processedSteps) =>
             /\ processedSteps[i].type = call.steps[i].type
             /\ processedSteps[i].name = call.steps[i].name
             /\ processedSteps[i].config = call.steps[i].config
             /\ processedSteps[i].next = call.steps[i].next
             /\ processedSteps[i].condition = call.steps[i].condition

\* a step of another type that has code and fileName in its config went
\* through, next to a code step that was uploaded
C17_Witness ==
  /\ Orchestrates
  /\ Len(workflowRequests) = 1
  /\ Len(uploaded) >= 1
  /\ \E i \in 1..Len(call.steps) :
       /\ call.steps[i].type # "code"
       /\ Has(call.steps[i].config, "code")
       /\ Has(workflowRequests[1].steps[i].config, "code")

\* C18: the processed config of a code step has the members of the input
\* config except code and fileName, each with its input value, and fileId
\* with the key the upload of that step returned; type, name, next and
\* condition are those of the input step
C18_CodeConfigRewritten ==
  (Orchestrates /\ opc # "idle") =>
    \A i \in 1..Len(processedSteps) :
      call.steps[i].type = "code" =>
        LET input  == call.steps[i].config
            output == processedSteps[i].config
        IN  /\ DOMAIN output = (DOMAIN input \ {"code", "fileName"}) \cup {"fileId"}
            /\ \A f \in DOMAIN output \ {"fileId"} : output[f] = input[f]
            /\ \E u \in 1..Len(uploaded) :
                 uploaded[u] = [step |-> i, key |-> output.fileId]
            /\ processedSteps[i].type = "code"
            /\ processedSteps[i].name = call.steps[i].name
            /\ processedSteps[i].next = call.steps[i].next
            /\ processedSteps[i].condition = call.steps[i].condition

\* a code step with fileName, envKeys, timeout and an old fileId was
\* rewritten, and so was one with libs
C18_Witness ==
  /\ Orchestrates
  /\ \E i, j \in 1..Len(processedSteps) :
       /\ call.steps[i].type = "code"
       /\ call.steps[j].type = "code"
       /\ {"fileName", "envKeys", "timeout", "fileId"} \subseteq DOMAIN call.steps[i].config
       /\ call.steps[i].config.fileId # processedSteps[i].config.fileId
       /\ Has(call.steps[j].config, "libs")
       /\ Has(processedSteps[j].config, "libs")

\* C19: the upload for the code step at position i is called with the
\* step's fileName when it has one and else with step_i.py (python) or
\* step_i.js (node), with the step's source text as it is, and with the
\* language python for python and javascript for node
C19_UploadArguments ==
  \A u \in 1..Len(uploadCalls) :
    LET i      == uploadCalls[u].step
        config == call.steps[i].config
    IN  /\ call.steps[i].type = "code"
        /\ uploadCalls[u].fileName =
             IF Has(config, "fileName") THEN config.fileName
             ELSE IF config.runtime = "python"
                  THEN "step_" \o ToString(i) \o ".py"
                  ELSE "step_" \o ToString(i) \o ".js"
        /\ uploadCalls[u].content = config.code
        /\ uploadCalls[u].language =
             IF config.runtime = "python" THEN "python" ELSE "javascript"

\* uploads were called as step_1.py, main.js and step_3.js, one of them
\* with source text that has white space around it
C19_Witness ==
  /\ Len(uploadCalls) = 3
  /\ uploadCalls[1].fileName = "step_1.py"
  /\ uploadCalls[1].language = "python"
  /\ uploadCalls[2].fileName = "main.js"
  /\ uploadCalls[2].content # Trim(uploadCalls[2].content)
  /\ uploadCalls[3].fileName = "step_3.js"
  /\ uploadCalls[3].language = "javascript"

\* the error body of the final response was read and has an error member
ErrorBodyRead ==
  handled.isJson /\ bodyRead = "ok" /\ handled.body = "errorObject"

\* C20: when the operation ends on a non-2xx response, the error is chosen
\* by the status: 401 AuthenticationError AUTH_FAILED, 403
\* AuthorizationError FORBIDDEN, 404 NotFoundError NOT_FOUND, 400 and 422
\* ValidationError VALIDATION_ERROR with the details of the body, 429
\* RateLimitError RATE_LIMIT, any other status a NeuranaError with that
\* status and the error code of the body
C20_StatusDeterminesKind ==
  (pc = "done" /\ handled # NoResponse /\ ~Ok(handled)) =>
    /\ outcome.kind = "error"
    /\ CASE handled.status = 401 ->
              outcome.class = "AuthenticationError" /\ outcome.code = "AUTH_FAILED"
         [] handled.status = 403 ->
              outcome.class = "AuthorizationError" /\ outcome.code = "FORBIDDEN"
         [] handled.status = 404 ->
              outcome.class = "NotFoundError" /\ outcome.code = "NOT_FOUND"
         [] handled.status \in {400, 422} ->
              /\ outcome.class = "ValidationError"
              /\ outcome.code = "VALIDATION_ERROR"
              /\ outcome.details = IF ErrorBodyRead THEN "server details" ELSE ""
         [] handled.status = 429 ->
              outcome.class = "RateLimitError" /\ outcome.code = "RATE_LIMIT"
         [] OTHER ->
              /\ outcome.class = "NeuranaError"
              /\ outcome.statusCode = handled.status
              /\ outcome.code = IF ErrorBodyRead THEN "SERVER_CODE" ELSE "UNKNOWN_ERROR"

\* a 400 response with an error body ended the operation as a
\* ValidationError with the details of the body
C20_Witness ==
  /\ pc = "done"
  /\ handled.status = 400
  /\ ErrorBodyRead
  /\ outcome.class = "ValidationError"
  /\ outcome.details = "server details"

\* C21: every RateLimitError that ends an operation carries a retryAfter
\* that is not negative, whatever the Retry-After header of the response
C21_RetryAfterNonNegative ==
  (pc = "done" /\ outcome.class = "RateLimitError") =>
    outcome.retryAfter[1] >= 0

\* the header is an integer in decimal notation, with or without a sign
IsIntegerText(header) ==
  LET signed == Len(header) > 0 /\ header[1] \in {"-", "+"}
      first  == IF signed THEN 2 ELSE 1
  IN  /\ first <= Len(header)
      /\ \A n \in first..Len(header) : IsDigit(header[n])

\* the integer that such a header denotes
IntegerValue(header) ==
  IF header[1] = "-" THEN 0 - DigitPrefix(header, 2, 0)
  ELSE IF header[1] = "+" THEN DigitPrefix(header, 2, 0)
  ELSE DigitPrefix(header, 1, 0)

\* the header is not there, or no character of it is a digit
AbsentOrNonNumeric(header) ==
  header = AbsentHeader \/ \A n \in 1..Len(header) : ~IsDigit(header[n])

C23_NoContentIsUndefined ==
  /\ (pc = "done" /\ handled.status = 204) =>
       outcome = Value("undefined") /\ bodyRead = "none"
  /\ handled.status = 204 => pc # "reading"

\* a 204 with a JSON content-type and a body that is not JSON returned
\* undefined
C23_Witness ==
  /\ pc = "done"
  /\ handled.status = 204
  /\ handled.isJson
  /\ handled.body = "malformed"
  /\ outcome = Value("undefined")

\* C24: when the last attempt ended with a thrown exception, the operation
\* throws TimeoutError for an Error named AbortError, else NetworkError for
\* an Error whose message contains 'fetch' or 'network', else a NeuranaError
\* with code UNKNOWN_ERROR, also for thrown values that are no Error
C24_TransportClassification ==
  (pc = "done" /\ last.type = "thrown") =>
    /\ outcome.kind = "error"
    /\ IF last.error.isError /\ last.error.name = "AbortError"
       THEN outcome.class = "TimeoutError" /\ outcome.code = "TIMEOUT"
       ELSE IF last.error.isError
               /\ \E n \in 1..Len(last.error.message) :
                    last.error.message[n] \in {"fetch", "network"}
            THEN outcome.class = "NetworkError" /\ outcome.code = "NETWORK_ERROR"
            ELSE outcome.class = "NeuranaError" /\ outcome.code = "UNKNOWN_ERROR"

\* a TypeError whose message names neither fetch nor network, thrown by the
\* last of three attempts, ended the operation as UNKNOWN_ERROR
C24_Witness ==
  /\ pc = "done"
  /\ last.type = "thrown"
  /\ last.error.name = "TypeError"
  /\ last.error.message = <<"terminated">>
  /\ fetchCalls = 3
  /\ outcome.code = "UNKNOWN_ERROR"

\* C25: an operation whose final response is a 2xx other than 204 returns
\* the body text when the content-type is not JSON and the body was read,
\* returns the parsed value when the content-type is JSON and the body
\* parses, and throws NeuranaError PARSE_ERROR with the status of the
\* response when the content-type is JSON and the body does not parse
C25_SuccessBody ==
  (pc = "done" /\ Ok(handled) /\ handled.status # 204) =>
    /\ (~handled.isJson /\ bodyRead = "ok") => outcome = Value("text")
    /\ (handled.isJson /\ bodyRead = "ok" /\ handled.body \in {"errorObject", "object"})
         => outcome = Value("json")
    /\ (handled.isJson /\ ~(bodyRead = "ok" /\ handled.body \in {"errorObject", "object"}))
         => /\ outcome.kind = "error"
            /\ outcome.class = "NeuranaError"
            /\ outcome.code = "PARSE_ERROR"
            /\ outcome.statusCode = handled.status

\* a 201 with a JSON content-type and a body that is not JSON ended in
\* PARSE_ERROR with status 201
C25_Witness ==
  /\ pc = "done"
  /\ handled.status = 201
  /\ handled.isJson
  /\ bodyRead = "ok"
  /\ handled.body = "malformed"
  /\ outcome.code = "PARSE_ERROR"
  /\ outcome.statusCode = 201

\* the error class that goes with a non-2xx status
StatusClass(status) ==
  CASE status = 401 -> "AuthenticationError"
    [] status = 403 -> "AuthorizationError"
    [] status = 404 -> "NotFoundError"
    [] status \in {400, 422} -> "ValidationError"
    [] status = 429 -> "RateLimitError"
    [] OTHER -> "NeuranaError"

\* C26: an operation that ends on a non-2xx response whose body gave no
\* error object (no JSON content-type, body unreadable, malformed, or JSON
\* without an error member) throws the error class of the status with the
\* message 'An unexpected error occurred', with code UNKNOWN_ERROR when the
\* class is the generic one, and never a parse error
C26_GenericFallback ==
  (pc = "done" /\ handled # NoResponse /\ ~Ok(handled) /\ ~ErrorBodyRead) =>
    /\ outcome.kind = "error"
    /\ outcome.class = StatusClass(handled.status)
    /\ outcome.message = "An unexpected error occurred"
    /\ outcome.class = "NeuranaError" => outcome.code = "UNKNOWN_ERROR"
    /\ outcome.code # "PARSE_ERROR"
    /\ outcome.details \in {"", "retryAfter"}

\* a 500 with a JSON content-type and a malformed body, read to the end,
\* ended as the generic error of the status
C26_Witness ==
  /\ pc = "done"
  /\ handled.status = 500
  /\ handled.isJson
  /\ handled.body = "malformed"
  /\ bodyRead = "ok"
  /\ outcome.code = "UNKNOWN_ERROR"
  /\ outcome.statusCode = 500

\* the retryAfter that goes with a Retry-After header: the number its
\* leading digits state, 60 when it has none
RetryAfterOf(header) ==
  LET signed == Len(header) > 0 /\ header[1] \in {"-", "+"}
      first  == IF signed THEN 2 ELSE 1
  IN  IF header = AbsentHeader \/ first > Len(header) \/ ~IsDigit(header[first])
      THEN 60
      ELSE IF signed /\ header[1] = "-"
           THEN 0 - DigitPrefix(header, first, 0)
           ELSE DigitPrefix(header, first, 0)

\* the error that a non-2xx response stands for, from the response and the
\* error object of its body alone
ExpectedError(response, hasErrorObject) ==
  LET class == StatusClass(response.status)
  IN  [kind       |-> "error",
       class      |-> class,
       code       |-> CASE class = "AuthenticationError" -> "AUTH_FAILED"
                        [] class = "AuthorizationError" -> "FORBIDDEN"
                        [] class = "NotFoundError" -> "NOT_FOUND"
                        [] class = "ValidationError" -> "VALIDATION_ERROR"
                        [] class = "RateLimitError" -> "RATE_LIMIT"
                        [] OTHER -> IF hasErrorObject THEN "SERVER_CODE"
                                    ELSE "UNKNOWN_ERROR",
       statusCode |-> CASE class = "ValidationError" -> 422
                        [] OTHER -> response.status,
       message    |-> IF hasErrorObject THEN "server message"
                      ELSE "An unexpected error occurred",
       details    |-> CASE class = "RateLimitError" -> "retryAfter"
                        [] class \in {"ValidationError", "NeuranaError"} ->
                             IF hasErrorObject THEN "server details" ELSE ""
                        [] OTHER -> "",
       retryAfter |-> IF class = "RateLimitError"
                      THEN <<RetryAfterOf(response.retryAfterHeader)>>
                      ELSE <<>>,
       value      |-> NoOutcome.value]

\* C27: the error of an operation that ends on a non-2xx response is a
\* function of that response alone (status, content-type, Retry-After,
\* body): class, code, message, statusCode, details and retryAfter are
\* the same at every attempt, time, timeout and history
C27_ClassificationDeterministic ==
  (pc = "done" /\ handled # NoResponse /\ ~Ok(handled)) =>
    outcome = ExpectedError(handled, ErrorBodyRead)

\* a 503 answered to the third attempt, after two backoff sleeps, gave the
\* error that a 503 always gives
C27_Witness ==
  /\ pc = "done"
  /\ handled.status = 503
  /\ attempt = 3
  /\ Len(delays) = 2
  /\ ErrorBodyRead
  /\ outcome = ExpectedError(handled, TRUE)

\* C28: every call of fetch of an operation gets the url, method, body and
\* headers of the first call, the body being the text of the caller's data
\* as it was when request was called; at most the X-Request-ID differs
C28_RetriesIdentical ==
  /\ Len(sent) = fetchCalls
  /\ \A n \in 1..Len(sent) :
       /\ sent[n].url = sent[1].url
       /\ sent[n].method = sent[1].method
       /\ sent[n].body = sent[1].body
       /\ sent[n].body = IF cfg.data = "undefined" THEN "undefined" ELSE "{object}"
       /\ sent[n].headers.authorization = sent[1].headers.authorization
       /\ sent[n].headers.contentType = sent[1].headers.contentType

\* three attempts went out with the original body although the caller
\* changed the data object meanwhile
C28_Witness ==
  /\ Len(sent) = 3
  /\ callerData = "mutated"
  /\ sent[3].body = "{object}"
  /\ sent[3].headers.requestId = "uuid-2"

\* what operation k shows depends on its own call only: its attempts are
\* bounded and counted by its own fetches, its deadline is its own call
\* time plus its own timeout, its controller is aborted only after that
\* deadline, and it ends in TimeoutError only when its own controller was
\* aborted
OpOwn(k) ==
  /\ ops[k].fetchCalls <= RETRY.MAX_ATTEMPTS
  /\ ops[k].attempt = ops[k].fetchCalls
  /\ ops[k].pc # "idle" => ops[k].timerDue = ops[k].callStart + ops[k].timeout
  /\ ops[k].controllerAborted => pairNow >= ops[k].callStart + ops[k].timeout
  /\ ops[k].outcome.class = "TimeoutError" => ops[k].controllerAborted
  /\ ops[k].pc = "done" => ~ops[k].timerArmed

\* C29: of two operations on one HttpClient, every step changes the
\* attempt count, timer, abort flag and outcome of at most the operation
\* whose fetch completion, sleep or timer it is, under every interleaving,
\* and each operation keeps to its own deadline and attempt bound
C29_OperationsIndependent ==
  [][ /\ \A k \in Ops : ops'[k] # ops[k] => actor' = k
      /\ \A k \in Ops : OpOwn(k)' ]_vars

\* one operation timed out while the other, called before that deadline,
\* retried once and returned a value
C29_Witness ==
  /\ ops # <<>>
  /\ ops[1].outcome.class = "TimeoutError"
  /\ ops[2].outcome.kind = "value"
  /\ ops[2].fetchCalls = 2
  /\ ops[2].callStart < ops[1].callStart + ops[1].timeout
  /\ ops[1].callStart < ops[2].callStart + ops[2].timeout

\* C30: calculateDelay(n) is min(30000, 1000 * 2^(n-1)) for every attempt
\* number n >= 1; over successive n it never decreases, it grows strictly
\* as long as it is below the cap, and it never exceeds 30000
C30_DelayFormula ==
  /\ \A m \in 1..Len(delayLog) :
       LET n == firstAttempt + m - 1
       IN  /\ delayLog[m] = IF 1000 * 2^(n - 1) < 30000 THEN 1000 * 2^(n - 1) ELSE 30000
           /\ delayLog[m] <= 30000
  /\ \A m \in 1..(Len(delayLog) - 1) :
       /\ delayLog[m] <= delayLog[m + 1]
       /\ delayLog[m] < 30000 => delayLog[m] < delayLog[m + 1]

\* the delays of attempts 1 to 7: doubling up to 16000, then the cap twice
C30_Witness ==
  /\ firstAttempt = 1
  /\ Len(delayLog) = 7
  /\ delayLog[1] = 1000
  /\ delayLog[5] = 16000
  /\ delayLog[6] = 30000
  /\ delayLog[7] = 30000

\* the api key is missing, not a string, too short, too long, or starts
\* with nrn_ without matching the key pattern
BadApiKey(value) ==
  \/ value.type \in {"undefined", "null"}
  \/ value.type # "string"
  \/ value.text = <<>>
  \/ Len(Trim(value.text)) < VALIDATION.MIN_API_KEY_LENGTH
  \/ Len(Trim(value.text)) > VALIDATION.MAX_API_KEY_LENGTH
  \/ /\ SubSeq(Trim(value.text), 1, 4) = <<"n", "r", "n", "_">>
     /\ \E i \in 5..Len(Trim(value.text)) : Trim(value.text)[i] \notin ApiKeyChars

\* the host of an absolute URL
Host(text) ==
  SubSeq(text, SchemeEnd(text) + 3,
         IndexOfAny(text, {":", "/", "?", "#"}, SchemeEnd(text) + 3) - 1)

Scheme(text) == SubSeq(text, 1, SchemeEnd(text) - 1)

\* an absolute URL that is not https and whose host is not a loopback address
InsecureUrl(url) ==
  /\ url.defined
  /\ SchemeEnd(url.text) > 0
  /\ Scheme(url.text) # <<"h", "t", "t", "p", "s">>
  /\ Host(url.text) \notin {<<"l", "o", "c", "a", "l", "h", "o", "s", "t">>, <<"1", "2", "7", ".", "0", ".", "0", ".", "1">>}

EndpointFields == {"baseUrl", "mainApiUrl", "sdkBaseUrl"}

\* the constructor threw a ConfigurationError and left nothing behind
RejectedAtConstruction ==
  /\ clientPc = "threw"
  /\ constructError.class = "ConfigurationError"
  /\ components = {}
  /\ issued = <<>>

\* C31: a NeuranaClient whose config has a missing, non-string, too short,
\* too long or malformed api key, or an insecure endpoint without the
\* override, is never constructed: the constructor throws a
\* ConfigurationError, no HttpClient or resource exists, no request is issued
C31_InvalidConfigRejected ==
  /\ clientPc # "parked"
  /\ clientPc # "new"
  /\ \/ BadApiKey(clientConfig.apiKey)
     \/ /\ clientConfig.allowInsecureHttp # "true"
        /\ \E field \in EndpointFields : InsecureUrl(clientConfig[field])
  => RejectedAtConstruction

\* C32: with an acceptable api key, an endpoint URL that is not https and
\* whose host is not localhost or 127.0.0.1 makes the constructor throw a
\* ConfigurationError, unless allowInsecureHttp is set: then construction
\* succeeds and the URL is logged in a warning
C32_HttpOnlyForLoopback ==
  /\ clientPc \in {"constructed", "threw"}
  /\ ~BadApiKey(clientConfig.apiKey)
  => \A field \in EndpointFields :
       InsecureUrl(clientConfig[field]) =>
         IF clientConfig.allowInsecureHttp = "true"
         THEN /\ clientPc = "constructed"
              /\ \E i \in 1..Len(warnings) :
                   warnings[i] = BeforeQuery(clientConfig[field].text)
         ELSE RejectedAtConstruction

\* the pieces of text between the separators
RECURSIVE SplitAt(_, _)
SplitAt(text, separator) ==
  LET i == IndexOfAny(text, {separator}, 1)
  IN  IF i > Len(text) THEN <<text>>
      ELSE <<SubSeq(text, 1, i - 1)>> \o SplitAt(SubSeq(text, i + 1, Len(text)), separator)

\* what a server reads from one encoded name or value
RECURSIVE UrlDecode(_)
UrlDecode(text) ==
  IF text = <<>> THEN <<>>
  ELSE IF Head(text) = "+" THEN <<" ">> \o UrlDecode(Tail(text))
  ELSE IF Len(text) >= 3 /\ SubSeq(text, 1, 3) = <<"%", "2", "6">>
       THEN <<"&">> \o UrlDecode(SubSeq(text, 4, Len(text)))
  ELSE IF Len(text) >= 3 /\ SubSeq(text, 1, 3) = <<"%", "3", "D">>
       THEN <<"=">> \o UrlDecode(SubSeq(text, 4, Len(text)))
  ELSE <<Head(text)>> \o UrlDecode(Tail(text))

\* the query parameters a URL carries, in order: name and value
QueryParameters(href) ==
  LET q == IndexOfAny(href, {"?"}, 1)
      pieces == IF q > Len(href) THEN <<>>
                ELSE SplitAt(SubSeq(href, q + 1, Len(href)), "&")
  IN  [i \in 1..Len(pieces) |->
         LET e == IndexOfAny(pieces[i], {"="}, 1)
         IN  [key  |-> UrlDecode(SubSeq(pieces[i], 1, e - 1)),
              text |-> UrlDecode(SubSeq(pieces[i], e + 1, Len(pieces[i])))]]

IsDefined(entry) == entry.value.type # "undefined"

\* the parameters of a call whose value is not undefined, with String(value)
DefinedParameters(params) ==
  LET defined == SelectSeq(params.entries, IsDefined)
  IN  [i \in 1..Len(defined) |-> [key |-> defined[i].key, text |-> String(defined[i].value)]]

\* C34: the URL of every call carries exactly the parameters whose value
\* is not undefined, each with the text String(value); a parameter whose
\* value is undefined does not appear in the URL
C34_UndefinedParamsOmitted ==
  \A i \in 1..Len(issued) :
    ~issued[i].url.throws =>
      QueryParameters(issued[i].url.href) = DefinedParameters(issued[i].params)

\* a call with an undefined parameter before defined ones, one of them with
\* characters that the URL encodes
C34_Witness ==
  \E i \in 1..Len(issued) :
    /\ ~issued[i].url.throws
    /\ Len(issued[i].params.entries) = 4
    /\ issued[i].params.entries[1].value.type = "undefined"
    /\ Len(QueryParameters(issued[i].url.href)) = 3
    /\ IncludesText(issued[i].url.href, <<"q", "=", "a", "+", "b", "%", "2", "6", "c", "%", "3", "D", "d", "&", "a", "l", "l", "=", "t", "r", "u", "e", "&", "p", "a", "g", "e", "=", "0">>)

\* an id that is empty, too long, or has a character outside ID_PATTERN
BadId(id) ==
  \/ Len(id) = 0
  \/ Len(id) > MAX_ID_LENGTH
  \/ { id[n] : n \in 1..Len(id) } \ ID_PATTERN_CHARS # {}

\* the input of the call fails the validation of its method
InvalidInput ==
  CASE call.op = "create" ->
         \/ ~call.hasData
         \/ ~call.hasName
         \/ \A n \in 1..Len(call.name) : IsSpace(call.name[n])
         \/ ~call.hasSteps
         \/ call.steps = <<>>
    [] call.op = "update" ->
         \/ BadId(call.id)
         \/ ~call.hasData
         \/ ~call.hasName /\ ~call.hasSteps
    [] call.op \in {"get", "delete", "updateVisibility", "trigger"} -> BadId(call.id)
    [] OTHER -> FALSE

\* C33: a workflows call whose input fails validation (create: blank name,
\* no steps; update: bad id, empty data; get, delete, updateVisibility: bad
\* id; trigger: bad workflowKey) rejects with a ValidationError, and no
\* upload call and no network request is ever made for it
C33_ValidationBeforeNetwork ==
  opc \notin {"parked", "idle"} /\ InvalidInput =>
    /\ opc = "done"
    /\ callResult.class = "ValidationError"
    /\ uploadCalls = <<>>
    /\ workflowRequests = <<>>

\* trigger was refused for a workflowKey with a character outside the pattern
C33_Witness ==
  /\ opc = "done"
  /\ call.op = "trigger"
  /\ call.id # <<>>
  /\ Len(call.id) <= MAX_ID_LENGTH
  /\ callResult = ValidationError("Invalid workflowKey format", "")
  /\ workflowRequests = <<>>

\* the thrown failure of the last attempt is one that handleError is to
\* deliver as a NetworkError
ClassifiedNetwork ==
  /\ last.error.isError
  /\ last.error.name # "AbortError"
  /\ \E n \in 1..Len(last.error.message) : last.error.message[n] \in {"fetch", "network"}

\* C35: a thrown transport failure is retried while attempts remain iff it
\* is one that is delivered as NetworkError; a NetworkError is delivered
\* only after 3 attempts, and a failure delivered as UNKNOWN_ERROR or
\* TimeoutError was not retried
C35_RetryAgreesWithClassification ==
  last.type = "thrown" =>
    /\ pc = "sleeping" => ClassifiedNetwork
    /\ (pc = "done" /\ attempt < RETRY.MAX_ATTEMPTS) => ~ClassifiedNetwork
    /\ (pc = "done" /\ outcome.class = "NetworkError") => fetchCalls = RETRY.MAX_ATTEMPTS

\* C36: when the operation ends on a non-2xx response, the statusCode of
\* the error it throws is the status of that response
C36_StatusCodeIsResponseStatus ==
  (pc = "done" /\ handled # NoResponse /\ ~Ok(handled)) =>
    /\ outcome.kind = "error"
    /\ outcome.statusCode = handled.status

\* the call ended without a workflow request: an upload rejected or a step
\* failed validation
Aborted == Orchestrates /\ opc = "done" /\ workflowRequests = <<>>

\* the position of the step at which the call aborted
AbortPosition ==
  IF failedUploads # <<>>
  THEN failedUploads[1].step
  ELSE CHOOSE k \in 1..Len(call.steps) :
         /\ InvalidCodeStep(call.steps[k])
         /\ callResult = ValidationError(InvalidStepMessage(k, call.steps[k]), "")

\* C37: when create / update aborts at step k, because step k failed
\* validation or its upload rejected, the uploads that succeeded are
\* exactly those of the code steps before k, one each
C37_UploadsBeforeAbort ==
  Aborted =>
    /\ \/ failedUploads # <<>>
       \/ \E k \in 1..Len(call.steps) :
            /\ InvalidCodeStep(call.steps[k])
            /\ callResult = ValidationError(InvalidStepMessage(k, call.steps[k]), "")
    /\ { uploaded[u].step : u \in 1..Len(uploaded) } = CodeStepsBefore(AbortPosition)
    /\ Len(uploaded) = Cardinality(CodeStepsBefore(AbortPosition))

\* the upload of the second code step rejected after the first succeeded,
\* with a code step still to come
C37_Witness ==
  /\ Aborted
  /\ Len(call.steps) = 3
  /\ \A k \in 1..3 : call.steps[k].type = "code"
  /\ failedUploads # <<>>
  /\ failedUploads[1].step = 2
  /\ Len(uploaded) = 1

\* C38: when a 429 response is retried, the executor sleeps for
\* INITIAL_DELAY * BACKOFF_FACTOR ^ (attempt - 1) ms (capped at MAX_DELAY)
\* from the time the response arrived, whatever its Retry-After header; a
\* retryAfter value exists only in the RateLimitError of a final 429
C38_BackoffIgnoresRetryAfter ==
  /\ [][ ( /\ pc = "fetching"
           /\ last'.type = "response"
           /\ last'.response.status = 429
           /\ attempt < RETRY.MAX_ATTEMPTS )
         => LET delay == RETRY.INITIAL_DELAY * Pow(RETRY.BACKOFF_FACTOR, attempt - 1)
                wait  == IF delay <= RETRY.MAX_DELAY THEN delay ELSE RETRY.MAX_DELAY
            IN  /\ pc' = "sleeping"
                /\ sleepUntil' = now + wait
                /\ delays' = Append(delays, wait)
                /\ outcome' = NoOutcome ]_vars
  /\ [](outcome.retryAfter # <<>> =>
          /\ pc = "done"
          /\ handled.status = 429
          /\ outcome.class = "RateLimitError")

\* the second attempt got a 429 whose Retry-After says 45 seconds, and the
\* executor sleeps 2000 ms
C38_Witness ==
  /\ pc = "sleeping"
  /\ attempt = 2
  /\ last.type = "response"
  /\ last.response.status = 429
  /\ last.response.retryAfterHeader = <<"4", "5">>
  /\ delays[2] = 2000

\* C39: no step of create / update changes the caller's data: the steps
\* array and every config, with the code and fileName of code steps, stay as
\* given until the call has returned or thrown; and the config pushed for a
\* code step is another object than the caller's, which differs from it
C39_InputUnchanged ==
  /\ [][call' = call]_vars
  /\ [](Orchestrates =>
          \A k \in 1..Len(processedSteps) :
            call.steps[k].type = "code" =>
              /\ processedSteps[k].config # call.steps[k].config
              /\ Has(call.steps[k].config, "code")
              /\ ~Has(processedSteps[k].config, "code"))

\* a create with a code step that names its file returned; the caller's
\* step still has code and fileName, the step that was sent has neither
C39_Witness ==
  /\ opc = "done"
  /\ callResult.kind = "value"
  /\ \E k \in 1..Len(call.steps) :
       /\ call.steps[k].type = "code"
       /\ Has(call.steps[k].config, "code")
       /\ Has(call.steps[k].config, "fileName")
       /\ ~Has(workflowRequests[1].steps[k].config, "fileName")
       /\ Has(workflowRequests[1].steps[k].config, "fileId")

\* the call that was made has returned or thrown
Terminated ==
  /\ pc # "parked" => pc = "done" /\ outcome # NoOutcome
  /\ opc # "parked" => opc = "done" /\ callResult # NoOutcome

====
